---- MODULE Spec2Model ----
(***************************************************************************)
(* Turn/transaction engine of the Monopoly game: the player and cell       *)
(* model (Model/models.py), the game manager (business/game_manager.py),   *)
(* the event processor (business/events.py) and the two copies of the      *)
(* reversible command layer (business/commands.py and BLL/commands.py with *)
(* BLL/command_implementations.py).                                        *)
(***************************************************************************)
EXTENDS Integers, Sequences, FiniteSets, TLC

(* ------------------------------ bounds --------------------------------- *)
\* number of players the runs of a started game register
NumPlayers == 2
\* the most players an engine holds (config.max_players in the code)
MaxPlayers == 3
\* the most calls of the engine's interface a run makes
MaxEngineOps == 4
\* capacity of the command history used in the model
max_history == 2
\* number of command objects a run constructs
MaxCommands == 3
\* number of undo, redo and clear_history calls in a run
MaxHistoryOps == 3
\* commands a client constructs and keeps for direct execute()/undo() calls
MaxHeldCommands == 2
\* number of members of a macro command
MaxMacroLen == 2
\* number of macro commands a run executes
MaxMacros == 2
\* number of dice rolls in a game
MaxRolls == 9
MaxLandings == 2
MaxJailOps == 2
MaxJailTurns == 3
MaxFactoryCalls == 3

(* --------------------------- program constants ------------------------- *)
None == 0
NoneVal == -1
initial_money == 15000
low_initial_money == 5000
start_bonus == 200
jail_fine == 500
jail_turns_on_entry == 3
config_jail_turns == 3
jail_player_position == 9
HOTEL == 4
EMPTY == 0

\* the ids create_player can hand out
Players == 1..MaxPlayers

map_data ==
  <<
    [position |-> 0, cell_type |-> "start", price |-> 0, rent_base |-> 0, upgrade_cost |-> 0, tax_name |-> "none"],
    [position |-> 1, cell_type |-> "property", price |-> 600, rent_base |-> 50, upgrade_cost |-> 300, tax_name |-> "none"],
    [position |-> 2, cell_type |-> "chance", price |-> 0, rent_base |-> 0, upgrade_cost |-> 0, tax_name |-> "none"],
    [position |-> 3, cell_type |-> "property", price |-> 600, rent_base |-> 50, upgrade_cost |-> 300, tax_name |-> "none"],
    [position |-> 4, cell_type |-> "tax", price |-> 0, rent_base |-> 0, upgrade_cost |-> 0, tax_name |-> "income"],
    [position |-> 5, cell_type |-> "airport", price |-> 2000, rent_base |-> 250, upgrade_cost |-> 1000, tax_name |-> "none"],
    [position |-> 6, cell_type |-> "property", price |-> 1000, rent_base |-> 90, upgrade_cost |-> 500, tax_name |-> "none"],
    [position |-> 7, cell_type |-> "misfortune", price |-> 0, rent_base |-> 0, upgrade_cost |-> 0, tax_name |-> "none"],
    [position |-> 8, cell_type |-> "property", price |-> 1000, rent_base |-> 90, upgrade_cost |-> 500, tax_name |-> "none"],
    [position |-> 9, cell_type |-> "property", price |-> 1200, rent_base |-> 100, upgrade_cost |-> 600, tax_name |-> "none"],
    [position |-> 10, cell_type |-> "jail", price |-> 0, rent_base |-> 0, upgrade_cost |-> 0, tax_name |-> "none"],
    [position |-> 11, cell_type |-> "property", price |-> 1400, rent_base |-> 110, upgrade_cost |-> 700, tax_name |-> "none"],
    [position |-> 12, cell_type |-> "utility", price |-> 1500, rent_base |-> 0, upgrade_cost |-> 0, tax_name |-> "none"],
    [position |-> 13, cell_type |-> "property", price |-> 1400, rent_base |-> 110, upgrade_cost |-> 700, tax_name |-> "none"],
    [position |-> 14, cell_type |-> "property", price |-> 1600, rent_base |-> 120, upgrade_cost |-> 800, tax_name |-> "none"],
    [position |-> 15, cell_type |-> "airport", price |-> 2000, rent_base |-> 250, upgrade_cost |-> 1000, tax_name |-> "none"],
    [position |-> 16, cell_type |-> "property", price |-> 1800, rent_base |-> 140, upgrade_cost |-> 900, tax_name |-> "none"],
    [position |-> 17, cell_type |-> "chance", price |-> 0, rent_base |-> 0, upgrade_cost |-> 0, tax_name |-> "none"],
    [position |-> 18, cell_type |-> "property", price |-> 1800, rent_base |-> 140, upgrade_cost |-> 900, tax_name |-> "none"],
    [position |-> 19, cell_type |-> "property", price |-> 2000, rent_base |-> 150, upgrade_cost |-> 1000, tax_name |-> "none"],
    [position |-> 20, cell_type |-> "free_parking", price |-> 0, rent_base |-> 0, upgrade_cost |-> 0, tax_name |-> "none"],
    [position |-> 21, cell_type |-> "property", price |-> 2200, rent_base |-> 180, upgrade_cost |-> 1100, tax_name |-> "none"],
    [position |-> 22, cell_type |-> "misfortune", price |-> 0, rent_base |-> 0, upgrade_cost |-> 0, tax_name |-> "none"],
    [position |-> 23, cell_type |-> "property", price |-> 2200, rent_base |-> 180, upgrade_cost |-> 1100, tax_name |-> "none"],
    [position |-> 24, cell_type |-> "property", price |-> 2400, rent_base |-> 200, upgrade_cost |-> 1200, tax_name |-> "none"],
    [position |-> 25, cell_type |-> "airport", price |-> 2000, rent_base |-> 250, upgrade_cost |-> 1000, tax_name |-> "none"],
    [position |-> 26, cell_type |-> "property", price |-> 2600, rent_base |-> 220, upgrade_cost |-> 1300, tax_name |-> "none"],
    [position |-> 27, cell_type |-> "property", price |-> 2600, rent_base |-> 220, upgrade_cost |-> 1300, tax_name |-> "none"],
    [position |-> 28, cell_type |-> "utility", price |-> 1500, rent_base |-> 0, upgrade_cost |-> 0, tax_name |-> "none"],
    [position |-> 29, cell_type |-> "property", price |-> 2800, rent_base |-> 240, upgrade_cost |-> 1400, tax_name |-> "none"],
    [position |-> 30, cell_type |-> "go_to_jail", price |-> 0, rent_base |-> 0, upgrade_cost |-> 0, tax_name |-> "none"],
    [position |-> 31, cell_type |-> "property", price |-> 3000, rent_base |-> 260, upgrade_cost |-> 1500, tax_name |-> "none"],
    [position |-> 32, cell_type |-> "property", price |-> 3000, rent_base |-> 260, upgrade_cost |-> 1500, tax_name |-> "none"],
    [position |-> 33, cell_type |-> "chance", price |-> 0, rent_base |-> 0, upgrade_cost |-> 0, tax_name |-> "none"],
    [position |-> 34, cell_type |-> "property", price |-> 3200, rent_base |-> 280, upgrade_cost |-> 1600, tax_name |-> "none"],
    [position |-> 35, cell_type |-> "tax", price |-> 0, rent_base |-> 0, upgrade_cost |-> 0, tax_name |-> "luxury"],
    [position |-> 36, cell_type |-> "landmark", price |-> 4000, rent_base |-> 500, upgrade_cost |-> 2000, tax_name |-> "none"]
  >>

board_size == Len(map_data)
MapPositions == {map_data[i].position : i \in 1..Len(map_data)}
CellAt(mp) == map_data[mp + 1]

PropertyLike == {"property", "airport", "utility", "landmark"}

\* the game modes GameFactoryManager keeps factories under, lower case
ModeKeys == {"standard", "easy", "hard", "custom"}

\* GameFactoryManager._factories before its first use: no mode has a factory
no_factories == [m \in ModeKeys |-> "none"]

\* no snapshot taken
NoSnapshot == [taken |-> FALSE]

\* the window thread between two handlers and the auto-save thread asleep:
\* pc is the statement the window thread has reached inside a handler, who,
\* cell and amount are the handler's locals; worker is where the auto-save
\* thread stands in create_game_state, next the player it reads next, seen
\* what it has read so far, snapshot the last snapshot it completed and
\* saves how many it has completed
no_threads ==
  [pc |-> "idle", who |-> 0, cell |-> 0, amount |-> 0,
   worker |-> "asleep", next |-> 1, seen |-> NoSnapshot,
   snapshot |-> NoSnapshot, saves |-> 0]

(* ------------------------------ state ---------------------------------- *)
VARIABLES
  money, position, is_in_jail, jail_turns, is_bankrupt, properties, items,
  owner_id, level, special_effects, config,
  layer, commands, command_history, current_index,
  players, ai_players, factories, game_saves, threads, current_player_index, game_state,
  turn_count, last_dice_result,
  roll_button, buy_button, upgrade_button, end_turn_button,
  last_result, ghost, ops

worldvars == <<money, position, is_in_jail, jail_turns, is_bankrupt, properties,
               items, owner_id, level, special_effects, config>>
histvars == <<layer, commands, command_history, current_index>>
turnvars == <<players, ai_players, factories, game_saves, threads, current_player_index,
              game_state,
              turn_count,
              last_dice_result,
              roll_button, buy_button, upgrade_button, end_turn_button>>
vars == <<worldvars, histvars, turnvars, last_result, ghost, ops>>

\* the mutable player and cell state as one value
World ==
  [money |-> money, position |-> position, is_in_jail |-> is_in_jail,
   jail_turns |-> jail_turns, is_bankrupt |-> is_bankrupt,
   properties |-> properties, items |-> items, owner_id |-> owner_id,
   level |-> level, special_effects |-> special_effects, config |-> config]

SetWorld(w) ==
  /\ money' = w.money
  /\ position' = w.position
  /\ is_in_jail' = w.is_in_jail
  /\ jail_turns' = w.jail_turns
  /\ is_bankrupt' = w.is_bankrupt
  /\ properties' = w.properties
  /\ items' = w.items
  /\ owner_id' = w.owner_id
  /\ level' = w.level
  /\ special_effects' = w.special_effects
  /\ config' = w.config

(* ------------------------- Player (models.py) -------------------------- *)
\* Player.spend_money: the return value
spend_money_ok(w, p, amount) == w.money[p] >= amount

\* a spend_money that debits without looking at the balance
spend_money_unguarded(w, p, amount) == [w EXCEPT !.money[p] = @ - amount]

\* Player.spend_money: the effect
spend_money(w, p, amount) ==
  IF w.money[p] >= amount THEN [w EXCEPT !.money[p] = @ - amount] ELSE w

add_money(w, p, amount) == [w EXCEPT !.money[p] = @ + amount]

\* Player.move: the new position
move(w, p, steps, size) == [w EXCEPT !.position[p] = (@ + steps) % size]

\* Player.move reporting a pass of start only when the position got smaller
move_passed_start_smaller(w, p, steps, size) ==
  (w.position[p] + steps) % size < w.position[p]

\* Player.move: the return value (start was passed)
move_passed_start(w, p, steps, size) ==
  \/ (w.position[p] + steps) % size < w.position[p]
  \/ w.position[p] + steps >= size

buy_property_ok(w, p, property_id, price) == spend_money_ok(w, p, price)

buy_property(w, p, property_id, price) ==
  IF spend_money_ok(w, p, price)
  THEN [spend_money(w, p, price) EXCEPT !.properties[p] = Append(@, property_id)]
  ELSE w

go_to_jail(w, p) ==
  [w EXCEPT !.is_in_jail[p] = TRUE,
            !.jail_turns[p] = jail_turns_on_entry,
            !.position[p] = jail_player_position]

\* a try_leave_jail that opens the door one turn early
try_leave_jail_early(w, p, pay_fine) ==
  IF ~w.is_in_jail[p] THEN w
  ELSE IF pay_fine /\ spend_money_ok(w, p, jail_fine)
  THEN [spend_money(w, p, jail_fine) EXCEPT !.is_in_jail[p] = FALSE, !.jail_turns[p] = 0]
  ELSE IF w.jail_turns[p] - 1 <= 1
  THEN [w EXCEPT !.jail_turns[p] = @ - 1, !.is_in_jail[p] = FALSE]
  ELSE [w EXCEPT !.jail_turns[p] = @ - 1]

\* Player.try_leave_jail: the effect
try_leave_jail(w, p, pay_fine) ==
  IF ~w.is_in_jail[p] THEN w
  ELSE IF pay_fine /\ spend_money_ok(w, p, jail_fine)
  THEN [spend_money(w, p, jail_fine) EXCEPT !.is_in_jail[p] = FALSE, !.jail_turns[p] = 0]
  ELSE IF w.jail_turns[p] - 1 <= 0
  THEN [w EXCEPT !.jail_turns[p] = @ - 1, !.is_in_jail[p] = FALSE]
  ELSE [w EXCEPT !.jail_turns[p] = @ - 1]

\* Player.try_leave_jail: the return value
try_leave_jail_ok(w, p, pay_fine) ==
  \/ ~w.is_in_jail[p]
  \/ pay_fine /\ spend_money_ok(w, p, jail_fine)
  \/ w.jail_turns[p] - 1 <= 0

check_bankruptcy(w, p) ==
  IF w.money[p] < 0 THEN [w EXCEPT !.is_bankrupt[p] = TRUE] ELSE w

\* list.remove: drops the first occurrence
RECURSIVE RemoveFirst(_, _)
RemoveFirst(s, x) ==
  IF s = <<>> THEN <<>>
  ELSE IF Head(s) = x THEN Tail(s)
  ELSE <<Head(s)>> \o RemoveFirst(Tail(s), x)

InSeq(x, s) == \E i \in 1..Len(s) : s[i] = x

(* ------------------------- MapCell (models.py) ------------------------- *)
\* get_rent charging a hotel the rent of three houses
get_rent_capped(w, mp) ==
  IF CellAt(mp).cell_type \notin {"property", "airport", "landmark"} THEN 0
  ELSE IF w.level[mp] = 0 THEN CellAt(mp).rent_base
  ELSE IF w.level[mp] = 1 THEN CellAt(mp).rent_base * 2
  ELSE IF w.level[mp] = 2 THEN CellAt(mp).rent_base * 4
  ELSE CellAt(mp).rent_base * 8

\* MapCell.get_rent
get_rent(w, mp) ==
  IF CellAt(mp).cell_type \notin {"property", "airport", "landmark"} THEN 0
  ELSE IF w.level[mp] = 0 THEN CellAt(mp).rent_base
  ELSE IF w.level[mp] = 1 THEN CellAt(mp).rent_base * 2
  ELSE IF w.level[mp] = 2 THEN CellAt(mp).rent_base * 4
  ELSE IF w.level[mp] = 3 THEN CellAt(mp).rent_base * 8
  ELSE IF w.level[mp] = 4 THEN CellAt(mp).rent_base * 16
  ELSE CellAt(mp).rent_base

can_upgrade(w, mp) ==
  /\ CellAt(mp).cell_type = "property"
  /\ w.owner_id[mp] # None
  /\ w.level[mp] < HOTEL

\* MapCell.upgrade: the effect
upgrade(w, mp) ==
  IF can_upgrade(w, mp) THEN [w EXCEPT !.level[mp] = @ + 1] ELSE w

\* MapCell.upgrade: the returned cost
upgrade_result(w, mp) ==
  IF can_upgrade(w, mp) THEN CellAt(mp).upgrade_cost ELSE 0

reset_ownership(w, mp) ==
  [w EXCEPT !.owner_id[mp] = None, !.level[mp] = EMPTY]

(* --------------------- GameManager (game_manager.py) ------------------- *)
\* the map position of the cell a player position designates, or NoneVal
get_cell_at_position(pos) ==
  IF pos + 1 \in MapPositions THEN pos + 1 ELSE NoneVal

\* the discount factor in percent pending for a player (100: none)
pending_discount(w, p) ==
  IF w.special_effects[p] # None THEN w.special_effects[p] ELSE 100

\* int(cell.price * discount)
final_price(w, p, mp) == (CellAt(mp).price * pending_discount(w, p)) \div 100

\* GameManager.purchase_property: the return value
purchase_property_ok(w, p, mp) ==
  /\ w.owner_id[mp] = None
  /\ buy_property_ok(w, p, CellAt(mp).position, final_price(w, p, mp))

\* purchase_property without the look at the owner
purchase_property_takeover(w, p, mp) ==
  LET fp == final_price(w, p, mp)
      w1 == [w EXCEPT !.special_effects[p] = None]
  IN IF buy_property_ok(w1, p, CellAt(mp).position, fp)
     THEN [buy_property(w1, p, CellAt(mp).position, fp) EXCEPT !.owner_id[mp] = p]
     ELSE w1

\* GameManager.purchase_property: the effect
purchase_property(w, p, mp) ==
  IF w.owner_id[mp] # None THEN w
  ELSE LET fp == final_price(w, p, mp)
           w1 == [w EXCEPT !.special_effects[p] = None]
       IN IF buy_property_ok(w1, p, CellAt(mp).position, fp)
          THEN [buy_property(w1, p, CellAt(mp).position, fp) EXCEPT !.owner_id[mp] = p]
          ELSE w1

\* GameManager.upgrade_property: the return value
upgrade_property_ok(w, p, mp) ==
  /\ w.owner_id[mp] = p
  /\ can_upgrade(w, mp)
  /\ upgrade_result(w, mp) > 0
  /\ spend_money_ok(upgrade(w, mp), p, upgrade_result(w, mp))

\* GameManager.upgrade_property: the effect
upgrade_property(w, p, mp) ==
  IF w.owner_id[mp] # p \/ ~can_upgrade(w, mp) THEN w
  ELSE LET cost == upgrade_result(w, mp)
           w1 == upgrade(w, mp)
       IN IF cost > 0 /\ spend_money_ok(w1, p, cost) THEN spend_money(w1, p, cost) ELSE w1

\* GameManager.move_player: the effect
move_player(w, p, steps) ==
  IF move_passed_start(w, p, steps, board_size)
  THEN add_money(move(w, p, steps, board_size), p, start_bonus)
  ELSE move(w, p, steps, board_size)

\* GameManager.move_player: result["passed_start"]
move_player_passed_start(w, p, steps) == move_passed_start(w, p, steps, board_size)

(* ----------------------- EventProcessor (events.py) -------------------- *)
chance_events ==
  << [key |-> "money", value |-> 500],
     [key |-> "money", value |-> 1000],
     [key |-> "money", value |-> 800],
     [key |-> "free_move", value |-> 1],
     [key |-> "extra_turn", value |-> 1],
     [key |-> "money", value |-> 300],
     [key |-> "item", value |-> 1],
     [key |-> "birthday", value |-> 50],
     [key |-> "money", value |-> 400],
     [key |-> "discount", value |-> 80] >>

misfortune_events ==
  << [key |-> "money", value |-> -300],
     [key |-> "money", value |-> -200],
     [key |-> "go_to_jail", value |-> 1],
     [key |-> "money", value |-> -500],
     [key |-> "house_repair", value |-> 100],
     [key |-> "money", value |-> -150],
     [key |-> "move_back", value |-> 3],
     [key |-> "tax_extra", value |-> 5],
     [key |-> "money", value |-> -250],
     [key |-> "money", value |-> -400] >>

\* the items of the game: 1 is the rent waiver, 2 the jail waiver
RentWaiver == 1
JailWaiver == 2

\* a birthday loop that collects from bankrupt players as well
RECURSIVE birthday_collect_bankrupt(_, _, _, _, _)
birthday_collect_bankrupt(w, p, amount, order, i) ==
  IF i > Len(order) THEN w
  ELSE LET o == order[i]
       IN IF o # p /\ spend_money_ok(w, o, amount)
          THEN birthday_collect_bankrupt(spend_money(w, o, amount), p, amount, order, i + 1)
          ELSE birthday_collect_bankrupt(w, p, amount, order, i + 1)

\* the birthday loop over all_players[i..]: what the others pay
RECURSIVE birthday_collect(_, _, _, _, _)
birthday_collect(w, p, amount, order, i) ==
  IF i > Len(order) THEN w
  ELSE LET o == order[i]
       IN IF o # p /\ ~w.is_bankrupt[o] /\ spend_money_ok(w, o, amount)
          THEN birthday_collect(spend_money(w, o, amount), p, amount, order, i + 1)
          ELSE birthday_collect(w, p, amount, order, i + 1)

\* the birthday loop: total_received
RECURSIVE birthday_total(_, _, _, _, _)
birthday_total(w, p, amount, order, i) ==
  IF i > Len(order) THEN 0
  ELSE LET o == order[i]
       IN IF o # p /\ ~w.is_bankrupt[o] /\ spend_money_ok(w, o, amount)
          THEN amount + birthday_total(spend_money(w, o, amount), p, amount, order, i + 1)
          ELSE birthday_total(w, p, amount, order, i + 1)

Max(a, b) == IF a >= b THEN a ELSE b

\* EventProcessor.process_event
process_event(w, ev, p, order) ==
  IF ev.key = "money"
  THEN IF ev.value > 0 THEN add_money(w, p, ev.value) ELSE spend_money(w, p, -ev.value)
  ELSE IF ev.key = "birthday"
  THEN add_money(birthday_collect(w, p, ev.value, order, 1), p,
                 birthday_total(w, p, ev.value, order, 1))
  ELSE IF ev.key = "house_repair"
  THEN spend_money(w, p, Len(w.properties[p]) * ev.value)
  ELSE IF ev.key = "tax_extra"
  THEN spend_money(w, p, (w.money[p] * ev.value) \div 100)
  ELSE IF ev.key = "go_to_jail"
  THEN go_to_jail(w, p)
  ELSE IF ev.key = "move_back"
  THEN [w EXCEPT !.position[p] = Max(0, @ - ev.value)]
  ELSE IF ev.key = "item"
  THEN [w EXCEPT !.items[p] = Append(@, ev.value)]
  ELSE w

(* --------------------- landing (game_manager.py) ----------------------- *)
\* _handle_property_landing giving up every rent waiver held at once
handle_property_landing_all_waivers(w, p, mp) ==
  IF w.owner_id[mp] = None \/ w.owner_id[mp] = p THEN w
  ELSE IF InSeq(RentWaiver, w.items[p])
  THEN [w EXCEPT !.items[p] = SelectSeq(@, LAMBDA x : x # RentWaiver)]
  ELSE add_money(spend_money(w, p, get_rent(w, mp)), w.owner_id[mp], get_rent(w, mp))

\* a landing that buys a cell nobody owns for the player at once
handle_property_landing_auto_buy(w, p, mp) ==
  IF w.owner_id[mp] = None THEN purchase_property(w, p, mp)
  ELSE IF w.owner_id[mp] = p THEN w
  ELSE IF InSeq(RentWaiver, w.items[p])
  THEN [w EXCEPT !.items[p] = RemoveFirst(@, RentWaiver)]
  ELSE add_money(spend_money(w, p, get_rent(w, mp)), w.owner_id[mp], get_rent(w, mp))

\* GameManager._handle_property_landing: the effect
handle_property_landing(w, p, mp) ==
  IF w.owner_id[mp] = None \/ w.owner_id[mp] = p THEN w
  ELSE IF InSeq(RentWaiver, w.items[p])
  THEN [w EXCEPT !.items[p] = RemoveFirst(@, RentWaiver)]
  ELSE add_money(spend_money(w, p, get_rent(w, mp)), w.owner_id[mp], get_rent(w, mp))

\* GameManager._handle_property_landing: result["type"]
handle_property_landing_type(w, p, mp) ==
  IF w.owner_id[mp] = None THEN "purchase_option"
  ELSE IF w.owner_id[mp] = p THEN "upgrade_option"
  ELSE IF InSeq(RentWaiver, w.items[p]) THEN "rent_waived"
  ELSE "rent_paid"

\* GameManager._handle_tax_landing: tax_amount
tax_amount_of(w, p, mp) ==
  IF CellAt(mp).tax_name = "income" THEN 200
  ELSE IF CellAt(mp).tax_name = "luxury" THEN 100
  ELSE w.money[p] \div 10

handle_tax_landing(w, p, mp) == spend_money(w, p, tax_amount_of(w, p, mp))

\* GameManager.process_landing: the effect; ev is the event drawn on an event cell
process_landing(w, p, ev, order) ==
  LET mp == get_cell_at_position(w.position[p])
  IN IF mp = NoneVal THEN w
     ELSE IF CellAt(mp).cell_type \in PropertyLike THEN handle_property_landing(w, p, mp)
     ELSE IF CellAt(mp).cell_type \in {"chance", "misfortune"} THEN process_event(w, ev, p, order)
     ELSE IF CellAt(mp).cell_type = "tax" THEN handle_tax_landing(w, p, mp)
     ELSE IF CellAt(mp).cell_type = "go_to_jail" THEN go_to_jail(w, p)
     ELSE w

\* GameManager.process_landing: result["type"]
process_landing_type(w, p) ==
  LET mp == get_cell_at_position(w.position[p])
  IN IF mp = NoneVal THEN "error"
     ELSE IF CellAt(mp).cell_type \in PropertyLike THEN handle_property_landing_type(w, p, mp)
     ELSE IF CellAt(mp).cell_type = "chance" THEN "chance_event"
     ELSE IF CellAt(mp).cell_type = "misfortune" THEN "misfortune_event"
     ELSE IF CellAt(mp).cell_type = "tax" THEN "tax_paid"
     ELSE IF CellAt(mp).cell_type = "go_to_jail" THEN "go_to_jail"
     ELSE "landing"

\* the events a landing can draw
landing_events(w, p) ==
  LET mp == get_cell_at_position(w.position[p])
  IN IF mp = NoneVal THEN {[key |-> "none", value |-> 0]}
     ELSE IF CellAt(mp).cell_type = "chance"
     THEN {chance_events[i] : i \in 1..Len(chance_events)}
     ELSE IF CellAt(mp).cell_type = "misfortune"
     THEN {misfortune_events[i] : i \in 1..Len(misfortune_events)}
     ELSE {[key |-> "none", value |-> 0]}

(* ------------------------------ commands ------------------------------- *)
\* a command object as its constructor leaves it.  cell_position is the
\* player position the business commands are given, cell the map position of
\* the MapCell object the BLL commands are given.
NewCommand(lay, kind, p, arg, receiver, w) ==
  [layer |-> lay, kind |-> kind, player_id |-> p,
   cell_position |-> IF lay = "business" /\ kind \in {"Purchase", "Upgrade"} THEN arg ELSE NoneVal,
   cell |-> IF lay = "BLL" /\ kind \in {"Purchase", "Upgrade", "PayTax"} THEN arg ELSE NoneVal,
   steps |-> IF kind = "Move" THEN arg ELSE 0,
   amount |-> IF kind = "PayRent" THEN arg ELSE 0,
   receiver_id |-> receiver,
   executed |-> FALSE,
   purchase_price |-> 0,
   upgrade_cost |-> 0,
   tax_amount |-> IF lay = "business" /\ kind = "PayTax" THEN arg ELSE 0,
   start_bonus |-> 0,
   previous_level |-> NoneVal,
   previous_position |-> NoneVal,
   start_bonus_received |-> FALSE,
   was_in_jail |-> FALSE,
   previous_jail_turns |-> 0,
   original_owner |-> IF lay = "BLL" /\ kind = "Purchase" THEN w.owner_id[arg] ELSE None,
   original_level |-> IF lay = "BLL" /\ kind = "Upgrade" THEN w.level[arg] ELSE EMPTY,
   original_position |-> IF lay = "BLL" /\ kind = "Move" THEN w.position[p] ELSE NoneVal]

Res(ok, w, c) == [ok |-> ok, w |-> w, c |-> c]

(* business/commands.py *)
BusPurchaseExecute(c, w) ==
  LET mp == get_cell_at_position(c.cell_position)
  IN IF mp = NoneVal THEN Res(FALSE, w, c)
     ELSE IF w.owner_id[mp] # None THEN Res(FALSE, w, c)
     ELSE IF w.money[c.player_id] >= CellAt(mp).price
     THEN LET c1 == [c EXCEPT !.purchase_price = CellAt(mp).price]
          IN IF purchase_property_ok(w, c.player_id, mp)
             THEN Res(TRUE, purchase_property(w, c.player_id, mp), [c1 EXCEPT !.executed = TRUE])
             ELSE Res(FALSE, purchase_property(w, c.player_id, mp), c1)
     ELSE Res(FALSE, w, c)

BusPurchaseUndo(c, w) ==
  LET mp == get_cell_at_position(c.cell_position)
  IN IF ~c.executed THEN Res(FALSE, w, c)
     ELSE IF mp # NoneVal /\ w.owner_id[mp] = c.player_id
     THEN LET w1 == reset_ownership(add_money(w, c.player_id, c.purchase_price), mp)
              w2 == IF InSeq(c.cell_position, w1.properties[c.player_id])
                    THEN [w1 EXCEPT !.properties[c.player_id] = RemoveFirst(@, c.cell_position)]
                    ELSE w1
          IN Res(TRUE, w2, [c EXCEPT !.executed = FALSE])
     ELSE Res(FALSE, w, c)

BusUpgradeExecute(c, w) ==
  LET mp == get_cell_at_position(c.cell_position)
  IN IF mp = NoneVal THEN Res(FALSE, w, c)
     ELSE IF w.owner_id[mp] # c.player_id THEN Res(FALSE, w, c)
     ELSE IF can_upgrade(w, mp) /\ w.money[c.player_id] >= CellAt(mp).upgrade_cost
     THEN LET c1 == [c EXCEPT !.previous_level = w.level[mp],
                              !.upgrade_cost = CellAt(mp).upgrade_cost]
          IN IF upgrade_property_ok(w, c.player_id, mp)
             THEN Res(TRUE, upgrade_property(w, c.player_id, mp), [c1 EXCEPT !.executed = TRUE])
             ELSE Res(FALSE, upgrade_property(w, c.player_id, mp), c1)
     ELSE Res(FALSE, w, c)

BusUpgradeUndo(c, w) ==
  LET mp == get_cell_at_position(c.cell_position)
  IN IF ~c.executed \/ c.previous_level = NoneVal THEN Res(FALSE, w, c)
     ELSE IF mp # NoneVal
     THEN Res(TRUE, [add_money(w, c.player_id, c.upgrade_cost) EXCEPT !.level[mp] = c.previous_level],
              [c EXCEPT !.executed = FALSE])
     ELSE Res(FALSE, w, c)

PayRentExecute(c, w) ==
  IF spend_money_ok(w, c.player_id, c.amount)
  THEN Res(TRUE, add_money(spend_money(w, c.player_id, c.amount), c.receiver_id, c.amount),
           [c EXCEPT !.executed = TRUE])
  ELSE Res(FALSE, w, c)

PayRentUndo(c, w) ==
  IF ~c.executed THEN Res(FALSE, w, c)
  ELSE Res(TRUE, add_money(spend_money(w, c.receiver_id, c.amount), c.player_id, c.amount),
           [c EXCEPT !.executed = FALSE])

BusMoveExecute(c, w) ==
  Res(TRUE, move_player(w, c.player_id, c.steps),
      [c EXCEPT !.previous_position = w.position[c.player_id],
                !.start_bonus_received = move_player_passed_start(w, c.player_id, c.steps),
                !.executed = TRUE])

\* a MovePlayerCommand.undo that does not look at the executed flag
BusMoveUndo_unguarded(c, w) ==
  IF c.previous_position = NoneVal THEN Res(FALSE, w, c)
  ELSE LET w1 == [w EXCEPT !.position[c.player_id] = c.previous_position]
       IN Res(TRUE,
              IF c.start_bonus_received THEN spend_money(w1, c.player_id, start_bonus) ELSE w1,
              [c EXCEPT !.executed = FALSE])

BusMoveUndo(c, w) ==
  IF ~c.executed \/ c.previous_position = NoneVal THEN Res(FALSE, w, c)
  ELSE LET w1 == [w EXCEPT !.position[c.player_id] = c.previous_position]
       IN Res(TRUE,
              IF c.start_bonus_received THEN spend_money(w1, c.player_id, start_bonus) ELSE w1,
              [c EXCEPT !.executed = FALSE])

BusPayTaxExecute(c, w) ==
  IF spend_money_ok(w, c.player_id, c.tax_amount)
  THEN Res(TRUE, spend_money(w, c.player_id, c.tax_amount), [c EXCEPT !.executed = TRUE])
  ELSE Res(FALSE, w, c)

BusPayTaxUndo(c, w) ==
  IF ~c.executed THEN Res(FALSE, w, c)
  ELSE Res(TRUE, add_money(w, c.player_id, c.tax_amount), [c EXCEPT !.executed = FALSE])

GoToJailExecute(c, w) ==
  Res(TRUE, go_to_jail(w, c.player_id),
      [c EXCEPT !.previous_position = w.position[c.player_id],
                !.was_in_jail = w.is_in_jail[c.player_id],
                !.previous_jail_turns = w.jail_turns[c.player_id],
                !.executed = TRUE])

GoToJailUndo(c, w) ==
  IF ~c.executed \/ c.previous_position = NoneVal THEN Res(FALSE, w, c)
  ELSE Res(TRUE,
           [w EXCEPT !.position[c.player_id] = c.previous_position,
                     !.is_in_jail[c.player_id] = c.was_in_jail,
                     !.jail_turns[c.player_id] = c.previous_jail_turns],
           [c EXCEPT !.executed = FALSE])

(* BLL/command_implementations.py *)
BllPurchaseExecute(c, w) ==
  IF c.executed THEN Res(FALSE, w, c)
  ELSE IF w.owner_id[c.cell] # None THEN Res(FALSE, w, c)
  ELSE LET price == (CellAt(c.cell).price * pending_discount(w, c.player_id)) \div 100
           c1 == [c EXCEPT !.purchase_price = price]
       IN IF w.money[c.player_id] < price THEN Res(FALSE, w, c1)
          ELSE Res(TRUE,
                   [spend_money(w, c.player_id, price)
                      EXCEPT !.owner_id[c.cell] = c.player_id,
                             !.properties[c.player_id] = Append(@, CellAt(c.cell).position),
                             !.special_effects[c.player_id] = None],
                   [c1 EXCEPT !.executed = TRUE])

BllPurchaseUndo(c, w) ==
  IF ~c.executed THEN Res(FALSE, w, c)
  ELSE LET w1 == [add_money(w, c.player_id, c.purchase_price)
                    EXCEPT !.owner_id[c.cell] = c.original_owner]
       IN Res(TRUE,
              IF InSeq(CellAt(c.cell).position, w1.properties[c.player_id])
              THEN [w1 EXCEPT !.properties[c.player_id] = RemoveFirst(@, CellAt(c.cell).position)]
              ELSE w1,
              [c EXCEPT !.executed = FALSE])

BllUpgradeExecute(c, w) ==
  IF c.executed THEN Res(FALSE, w, c)
  ELSE IF w.owner_id[c.cell] # c.player_id THEN Res(FALSE, w, c)
  ELSE IF ~can_upgrade(w, c.cell) THEN Res(FALSE, w, c)
  ELSE LET c1 == [c EXCEPT !.upgrade_cost = CellAt(c.cell).upgrade_cost]
       IN IF w.money[c.player_id] < c1.upgrade_cost THEN Res(FALSE, w, c1)
          ELSE Res(TRUE,
                   [spend_money(w, c.player_id, c1.upgrade_cost) EXCEPT !.level[c.cell] = @ + 1],
                   [c1 EXCEPT !.executed = TRUE])

BllUpgradeUndo(c, w) ==
  IF ~c.executed THEN Res(FALSE, w, c)
  ELSE Res(TRUE,
           [add_money(w, c.player_id, c.upgrade_cost) EXCEPT !.level[c.cell] = c.original_level],
           [c EXCEPT !.executed = FALSE])

BllPayTaxExecute(c, w) ==
  IF c.executed THEN Res(FALSE, w, c)
  ELSE LET c1 == [c EXCEPT !.tax_amount = tax_amount_of(w, c.player_id, c.cell)]
       IN IF w.money[c.player_id] < c1.tax_amount THEN Res(FALSE, w, c1)
          ELSE Res(TRUE, spend_money(w, c.player_id, c1.tax_amount), [c1 EXCEPT !.executed = TRUE])

BllPayTaxUndo(c, w) ==
  IF ~c.executed THEN Res(FALSE, w, c)
  ELSE Res(TRUE, add_money(w, c.player_id, c.tax_amount), [c EXCEPT !.executed = FALSE])

BllMoveExecute(c, w) ==
  IF c.executed THEN Res(FALSE, w, c)
  ELSE IF move_passed_start(w, c.player_id, c.steps, board_size)
  THEN Res(TRUE, add_money(move(w, c.player_id, c.steps, board_size), c.player_id, start_bonus),
           [c EXCEPT !.start_bonus = start_bonus, !.executed = TRUE])
  ELSE Res(TRUE, move(w, c.player_id, c.steps, board_size), [c EXCEPT !.executed = TRUE])

BllMoveUndo(c, w) ==
  IF ~c.executed THEN Res(FALSE, w, c)
  ELSE LET w1 == [w EXCEPT !.position[c.player_id] = c.original_position]
       IN Res(TRUE,
              IF c.start_bonus > 0 THEN spend_money(w1, c.player_id, c.start_bonus) ELSE w1,
              [c EXCEPT !.executed = FALSE])

\* Command.execute, by the class of the object
Execute(c, w) ==
  IF c.layer = "business"
  THEN CASE c.kind = "Purchase" -> BusPurchaseExecute(c, w)
         [] c.kind = "Upgrade" -> BusUpgradeExecute(c, w)
         [] c.kind = "PayRent" -> PayRentExecute(c, w)
         [] c.kind = "Move" -> BusMoveExecute(c, w)
         [] c.kind = "PayTax" -> BusPayTaxExecute(c, w)
         [] c.kind = "GoToJail" -> GoToJailExecute(c, w)
  ELSE CASE c.kind = "Purchase" -> BllPurchaseExecute(c, w)
         [] c.kind = "Upgrade" -> BllUpgradeExecute(c, w)
         [] c.kind = "PayTax" -> BllPayTaxExecute(c, w)
         [] c.kind = "Move" -> BllMoveExecute(c, w)

\* Command.undo, by the class of the object
Undo(c, w) ==
  IF c.layer = "business"
  THEN CASE c.kind = "Purchase" -> BusPurchaseUndo(c, w)
         [] c.kind = "Upgrade" -> BusUpgradeUndo(c, w)
         [] c.kind = "PayRent" -> PayRentUndo(c, w)
         [] c.kind = "Move" -> BusMoveUndo(c, w)
         [] c.kind = "PayTax" -> BusPayTaxUndo(c, w)
         [] c.kind = "GoToJail" -> GoToJailUndo(c, w)
  ELSE CASE c.kind = "Purchase" -> BllPurchaseUndo(c, w)
         [] c.kind = "Upgrade" -> BllUpgradeUndo(c, w)
         [] c.kind = "PayTax" -> BllPayTaxUndo(c, w)
         [] c.kind = "Move" -> BllMoveUndo(c, w)

(* --------------------- CommandInvoker (commands.py) -------------------- *)
\* an execute_command that never evicts
invoker_execute_unbounded(h, idx, id) ==
  [history |-> Append(SubSeq(h, 1, idx + 1), id), index |-> idx + 1]

\* an execute_command that evicts without moving the cursor back
invoker_execute_noshift(h, idx, id) ==
  LET h1 == Append(SubSeq(h, 1, idx + 1), id)
  IN IF Len(h1) > max_history
     THEN [history |-> Tail(h1), index |-> idx + 1]
     ELSE [history |-> h1, index |-> idx + 1]

\* an execute_command that keeps the redo tail
invoker_execute_notrunc(h, idx, id) ==
  LET h1 == SubSeq(h, 1, idx + 1) \o <<id>> \o SubSeq(h, idx + 2, Len(h))
  IN IF Len(h1) > max_history
     THEN [history |-> Tail(h1), index |-> idx + 1 - 1]
     ELSE [history |-> h1, index |-> idx + 1]

\* CommandInvoker.execute_command: the history and cursor after a successful execute
invoker_execute(h, idx, id) ==
  LET h1 == Append(SubSeq(h, 1, idx + 1), id)
  IN IF Len(h1) > max_history
     THEN [history |-> Tail(h1), index |-> idx + 1 - 1]
     ELSE [history |-> h1, index |-> idx + 1]

can_undo(idx) == idx >= 0

can_redo(h, idx) == idx < Len(h) - 1

\* an undo that moves the cursor whatever the command returned
invoker_undo_index_always(idx, ok) == idx - 1

\* CommandInvoker.undo: the cursor after a command-level undo returned ok
invoker_undo_index(idx, ok) == IF ok THEN idx - 1 ELSE idx

\* CommandInvoker.redo: the cursor after a command-level execute returned ok
invoker_redo_index(idx, ok) == IF ok THEN idx + 1 ELSE (idx + 1) - 1

(* --------------------------- inputs of a run --------------------------- *)
\* <<kind, player, argument, receiver>>: the commands a run constructs
CommandInputs(lay) ==
  IF lay = "business"
  THEN { <<"Purchase", 1, 12, None>>, <<"Purchase", 2, 12, None>>,
         <<"Upgrade", 1, 12, None>>,
         <<"PayRent", 1, 100, 2>>,
         <<"Move", 1, 36, None>>,
         <<"PayTax", 2, 200, None>>,
         <<"GoToJail", 1, 0, None>> }
  ELSE { <<"Purchase", 1, 13, None>>, <<"Purchase", 2, 13, None>>,
         <<"Upgrade", 1, 13, None>>,
         <<"Move", 1, 36, None>>,
         <<"PayTax", 2, 4, None>> }

\* the commands a client constructs and keeps a reference to
HeldInputs(lay) ==
  IF lay = "business"
  THEN { <<"Purchase", 1, 12, None>>, <<"Upgrade", 1, 12, None>>, <<"PayRent", 1, 100, 2>>,
         <<"Move", 1, 3, None>>, <<"PayTax", 2, 200, None>>, <<"GoToJail", 1, 0, None>> }
  ELSE { <<"Purchase", 1, 13, None>>, <<"Upgrade", 1, 13, None>>, <<"Move", 1, 3, None>>,
         <<"PayTax", 2, 4, None>> }

Result(op, ok, id, flag, amount) ==
  [op |-> op, ok |-> ok, id |-> id, flag |-> flag, amount |-> amount]

\* the part of the world the round trip is about
Core(w) ==
  [money |-> w.money, position |-> w.position, properties |-> w.properties,
   owner_id |-> w.owner_id, level |-> w.level]

\* the same without the owned lists
CoreNoLists(w) ==
  [money |-> w.money, position |-> w.position, is_in_jail |-> w.is_in_jail,
   jail_turns |-> w.jail_turns, owner_id |-> w.owner_id, level |-> w.level]

InitWorld(m) ==
  [money |-> [p \in Players |-> m],
   position |-> [p \in Players |-> 0],
   is_in_jail |-> [p \in Players |-> FALSE],
   jail_turns |-> [p \in Players |-> 0],
   is_bankrupt |-> [p \in Players |-> FALSE],
   properties |-> [p \in Players |-> <<>>],
   items |-> [p \in Players |-> <<>>],
   owner_id |-> [mp \in MapPositions |-> None],
   level |-> [mp \in MapPositions |-> EMPTY],
   special_effects |-> [p \in Players |-> None],
   config |-> [jail_turns |-> config_jail_turns]]

\* no history undo is the last thing that happened
NoUndo == [w |-> InitWorld(0), idx |-> -1]

InitGhost(w) ==
  [base |-> w, evicted |-> FALSE, execs |-> 0, undos |-> 0, clean |-> TRUE,
   first_id |-> 0, first_post |-> w, dropped |-> {},
   landing |-> "none", rent |-> 0, pre_money |-> w.money,
   discount |-> [p \in Players |-> None], rolled |-> FALSE,
   event |-> [key |-> "none", value |-> 0], decision |-> "none",
   request |-> "none", at_save |-> <<>>, loaded |-> "no",
   stable |-> {Core(w)}, returned |-> "none", turns |-> <<>>,
   pre_undo |-> NoUndo]

\* the state of a new GameManager and its window holding the players order,
\* each with m to spend
InitState(m, order) ==
  /\ money = InitWorld(m).money
  /\ position = InitWorld(m).position
  /\ is_in_jail = InitWorld(m).is_in_jail
  /\ jail_turns = InitWorld(m).jail_turns
  /\ is_bankrupt = InitWorld(m).is_bankrupt
  /\ properties = InitWorld(m).properties
  /\ items = InitWorld(m).items
  /\ owner_id = InitWorld(m).owner_id
  /\ level = InitWorld(m).level
  /\ special_effects = InitWorld(m).special_effects
  /\ config = InitWorld(m).config
  /\ commands = <<>>
  /\ command_history = <<>>
  /\ current_index = -1
  /\ players = order
  /\ ai_players = [p \in Players |-> "human"]
  /\ factories = no_factories
  /\ game_saves = <<>>
  /\ threads = no_threads
  /\ current_player_index = 0
  /\ game_state = "waiting"
  /\ turn_count = 0
  /\ last_dice_result = None
  /\ roll_button = "disabled"
  /\ buy_button = "disabled"
  /\ upgrade_button = "disabled"
  /\ end_turn_button = "disabled"
  /\ last_result = Result("init", TRUE, 0, FALSE, 0)
  /\ ghost = InitGhost(InitWorld(m))
  /\ ops = 0

InitCommon(m) == InitState(m, [i \in 1..NumPlayers |-> i])

Init ==
  /\ layer \in {"business", "BLL"}
  /\ InitCommon(initial_money)

(* ------------------------- history operations -------------------------- *)
\* invoker.execute_command(SomeCommand(...)) on a newly constructed command
execute_command(inp) ==
  /\ LET c0 == NewCommand(layer, inp[1], inp[2], inp[3], inp[4], World)
         r == Execute(c0, World)
         id == Len(commands) + 1
         nh == invoker_execute(command_history, current_index, id)
         dropped == Len(command_history) - (current_index + 1)
         tail == {command_history[i] : i \in (current_index + 2)..Len(command_history)}
         evict == Len(command_history) - dropped + 1 > max_history
     IN /\ commands' = Append(commands, r.c)
        /\ SetWorld(r.w)
        /\ command_history' = IF r.ok THEN nh.history ELSE command_history
        /\ current_index' = IF r.ok THEN nh.index ELSE current_index
        /\ last_result' = Result("execute_command", r.ok, id, r.ok /\ evict,
                                 IF r.ok THEN dropped ELSE 0)
        /\ ghost' = IF ~r.ok THEN ghost
                    ELSE [ghost EXCEPT !.evicted = @ \/ evict,
                                       !.execs = @ + 1,
                                       !.clean = @ /\ ghost.undos = 0,
                                       !.undos = 0,
                                       !.first_id = IF ghost.execs = 0 THEN id ELSE @,
                                       !.first_post = IF ghost.execs = 0 THEN r.w ELSE @,
                                       !.dropped = @ \cup tail,
                                       !.pre_undo = NoUndo]
  /\ UNCHANGED <<layer, turnvars, ops>>

\* the client constructs at most MaxCommands commands
ExecuteCommand(inp) ==
  /\ Len(commands) < MaxCommands
  /\ execute_command(inp)

\* invoker.undo(); the state it found is noted
HistoryUndo ==
  /\ ops < MaxHistoryOps
  /\ ops' = ops + 1
  /\ IF ~can_undo(current_index)
     THEN /\ UNCHANGED <<worldvars, commands, current_index, ghost>>
          /\ last_result' = Result("undo", FALSE, 0, FALSE, 0)
     ELSE LET id == command_history[current_index + 1]
              r == Undo(commands[id], World)
          IN /\ commands' = [commands EXCEPT ![id] = r.c]
             /\ SetWorld(r.w)
             /\ current_index' = invoker_undo_index(current_index, r.ok)
             /\ last_result' = Result("undo", r.ok, id, TRUE, 0)
             /\ ghost' = [ghost EXCEPT
                            !.undos = IF r.ok /\ ghost.clean THEN @ + 1 ELSE @,
                            !.pre_undo = [w |-> World, idx |-> current_index]]
  /\ UNCHANGED <<layer, command_history, turnvars>>

\* invoker.redo()
HistoryRedo ==
  /\ ops < MaxHistoryOps
  /\ ops' = ops + 1
  /\ IF ~can_redo(command_history, current_index)
     THEN /\ UNCHANGED <<worldvars, commands, current_index>>
          /\ last_result' = Result("redo", FALSE, 0, FALSE, 0)
     ELSE LET id == command_history[current_index + 2]
              r == Execute(commands[id], World)
          IN /\ commands' = [commands EXCEPT ![id] = r.c]
             /\ SetWorld(r.w)
             /\ current_index' = invoker_redo_index(current_index, r.ok)
             /\ last_result' = Result("redo", r.ok, id, TRUE, 0)
  /\ ghost' = [ghost EXCEPT !.clean = FALSE, !.undos = 0, !.pre_undo = NoUndo]
  /\ UNCHANGED <<layer, command_history, turnvars>>

\* invoker.clear_history()
ClearHistory ==
  /\ ops < MaxHistoryOps
  /\ ops' = ops + 1
  /\ command_history # <<>>
  /\ command_history' = <<>>
  /\ current_index' = -1
  /\ last_result' = Result("clear_history", TRUE, 0, FALSE, 0)
  /\ ghost' = [InitGhost(World) EXCEPT !.dropped = ghost.dropped]
  /\ UNCHANGED <<worldvars, layer, commands, turnvars>>

\* a direct call of execute() on a command object the client still holds
CmdExecute(id) ==
  /\ ops < MaxHistoryOps
  /\ ops' = ops + 1
  /\ LET r == Execute(commands[id], World)
     IN /\ commands' = [commands EXCEPT ![id] = r.c]
        /\ SetWorld(r.w)
        /\ last_result' = Result("cmd_execute", r.ok, id, commands[id].executed, 0)
  /\ ghost' = [ghost EXCEPT !.clean = FALSE, !.undos = 0, !.pre_undo = NoUndo]
  /\ UNCHANGED <<layer, command_history, current_index, turnvars>>

\* a direct call of undo() on a command object the client still holds
CmdUndo(id) ==
  /\ ops < MaxHistoryOps
  /\ ops' = ops + 1
  /\ LET r == Undo(commands[id], World)
     IN /\ commands' = [commands EXCEPT ![id] = r.c]
        /\ SetWorld(r.w)
        /\ last_result' = Result("cmd_undo", r.ok, id, commands[id].executed, 0)
  /\ ghost' = [ghost EXCEPT !.clean = FALSE, !.undos = 0, !.pre_undo = NoUndo]
  /\ UNCHANGED <<layer, command_history, current_index, turnvars>>

NextHist ==
  \/ \E inp \in CommandInputs(layer) : ExecuteCommand(inp)
  \/ HistoryUndo
  \/ HistoryRedo
  \/ ClearHistory

SpecHist == Init /\ [][NextHist]_vars

\* the client keeps a reference to the commands it hands to the invoker
ExecuteHeldCommand(inp) ==
  /\ Len(commands) < MaxHeldCommands
  /\ execute_command(inp)

NextCmd ==
  \/ \E inp \in HeldInputs(layer) : ExecuteHeldCommand(inp)
  \/ HistoryUndo
  \/ HistoryRedo
  \/ ClearHistory
  \/ \E id \in 1..Len(commands) : CmdExecute(id)
  \/ \E id \in 1..Len(commands) : CmdUndo(id)

SpecCmd == Init /\ [][NextCmd]_vars

(* --------------------- MacroCommand (commands.py) ---------------------- *)
\* MacroCommand.undo: undoes executed_commands (indices into cs) in reverse order
RECURSIVE macro_undo(_, _, _)
macro_undo(cs, w, executed_commands) ==
  IF executed_commands = <<>> THEN w
  ELSE LET i == executed_commands[Len(executed_commands)]
       IN macro_undo(cs, Undo(cs[i], w).w,
                     SubSeq(executed_commands, 1, Len(executed_commands) - 1))

\* MacroCommand.execute from member i on: the world it leaves
RECURSIVE macro_execute(_, _, _, _)
macro_execute(cs, w, i, executed_commands) ==
  IF i > Len(cs) THEN w
  ELSE LET r == Execute(cs[i], w)
       IN IF r.ok
          THEN macro_execute([cs EXCEPT ![i] = r.c], r.w, i + 1, Append(executed_commands, i))
          ELSE macro_undo(cs, r.w, executed_commands)

\* MacroCommand.execute from member i on: the return value
RECURSIVE macro_execute_ok(_, _, _)
macro_execute_ok(cs, w, i) ==
  IF i > Len(cs) THEN TRUE
  ELSE LET r == Execute(cs[i], w)
       IN IF r.ok THEN macro_execute_ok([cs EXCEPT ![i] = r.c], r.w, i + 1) ELSE FALSE

\* the index of the first member that fails, 0 if none does
RECURSIVE macro_failing_member(_, _, _)
macro_failing_member(cs, w, i) ==
  IF i > Len(cs) THEN 0
  ELSE LET r == Execute(cs[i], w)
       IN IF r.ok THEN macro_failing_member([cs EXCEPT ![i] = r.c], r.w, i + 1) ELSE i

MacroInputs ==
  UNION {[1..n -> CommandInputs("business")] : n \in 1..MaxMacroLen}

InitBusiness ==
  /\ layer = "business"
  /\ InitCommon(initial_money)

\* MacroCommand([...], description).execute() on newly constructed members
MacroExecute(inps) ==
  /\ ops < MaxMacros
  /\ ops' = ops + 1
  /\ LET cs == [i \in 1..Len(inps) |->
                 NewCommand("business", inps[i][1], inps[i][2], inps[i][3], inps[i][4], World)]
     IN /\ SetWorld(macro_execute(cs, World, 1, <<>>))
        /\ last_result' = Result("macro", macro_execute_ok(cs, World, 1), 0, FALSE,
                                 macro_failing_member(cs, World, 1))
  /\ UNCHANGED <<histvars, turnvars, ghost>>

NextMacro == \E inps \in MacroInputs : MacroExecute(inps)

SpecMacro == InitBusiness /\ [][NextMacro]_vars

(* ------------------- the game window (main_window.py) ------------------ *)
\* the totals of the two dice a run throws
DiceTotals == {9, 10}

\* the orders random.shuffle can leave the players in
RECURSIVE Orders(_)
Orders(S) ==
  IF S = {} THEN {<<>>}
  ELSE UNION {{<<x>> \o o : o \in Orders(S \ {x})} : x \in S}

\* the players registered with the engine
registered == {players[i] : i \in 1..Len(players)}

\* GameManager.get_current_player
get_current_player ==
  IF players = <<>> \/ game_state # "playing" THEN None
  ELSE players[current_player_index + 1]

\* the players that are not bankrupt, as indexes into the player list
active_players(w, order) == {i \in 1..Len(order) : ~w.is_bankrupt[order[i]]}

\* GameManager.next_turn: the index of the next player that is not bankrupt
RECURSIVE next_index(_, _, _, _)
next_index(w, order, idx, attempts) ==
  IF attempts >= Len(order) THEN idx
  ELSE LET n == (idx + 1) % Len(order)
       IN IF ~w.is_bankrupt[order[n + 1]] THEN n
          ELSE next_index(w, order, n, attempts + 1)

\* next_turn taking the next player of the list, bankrupt or not
next_player_index_noskip(w, order, idx) == (idx + 1) % Len(order)

\* GameManager.next_turn: the loop that finds the player to move next
next_player_index(w, order, idx) == next_index(w, order, idx, 0)

\* next_turn going on while anybody is left
next_turn_ok_anyone(w, order, gs) ==
  /\ gs = "playing"
  /\ Cardinality(active_players(w, order)) > 0

\* GameManager.next_turn: the return value
next_turn_ok(w, order, gs) ==
  /\ gs = "playing"
  /\ Cardinality(active_players(w, order)) > 1

\* GameWindow._update_ui_state on the roll button
update_ui_state_roll(gs) == IF gs = "playing" THEN "normal" ELSE "disabled"

\* GameWindow._end_turn: check_bankruptcy on the current player, next_turn,
\* then _update_ui_state (directly or through _game_over)
end_turn(w) ==
  LET cp == get_current_player
      w1 == IF cp # None THEN check_bankruptcy(w, cp) ELSE w
      ok == next_turn_ok(w1, players, game_state)
      gs == IF game_state = "playing" /\ ~ok THEN "finished" ELSE game_state
      ni == IF ok THEN next_player_index(w1, players, current_player_index)
            ELSE current_player_index
  IN /\ SetWorld(w1)
     /\ game_state' = gs
     /\ current_player_index' = ni
     /\ turn_count' = IF ok /\ ni = 0 THEN turn_count + 1 ELSE turn_count
     /\ roll_button' = update_ui_state_roll(gs)
     /\ buy_button' = "disabled"
     /\ upgrade_button' = "disabled"
     /\ end_turn_button' = "disabled"
     /\ players' = players
     /\ last_dice_result' = last_dice_result

\* GameWindow._start_game
StartGame(order) ==
  /\ game_state = "waiting"
  /\ Len(players) >= 2
  /\ game_state' = "playing"
  /\ current_player_index' = 0
  /\ turn_count' = 1
  /\ players' = order
  /\ roll_button' = "normal"
  /\ buy_button' = "disabled"
  /\ upgrade_button' = "disabled"
  /\ end_turn_button' = "disabled"
  /\ last_result' = Result("start", TRUE, 0, FALSE, 0)
  /\ UNCHANGED <<worldvars, histvars, ai_players, factories, game_saves, threads, last_dice_result, ghost, ops>>

\* GameWindow._roll_dice with the dice showing total; ev is the event an
\* event cell draws
RollDice(total, ev) ==
  /\ roll_button = "normal"
  /\ get_current_player # None
  /\ ops < MaxRolls
  /\ ops' = ops + 1
  /\ LET cp == get_current_player
         w1 == try_leave_jail(World, cp, FALSE)
     IN IF is_in_jail[cp] /\ ~try_leave_jail_ok(World, cp, FALSE)
        THEN /\ end_turn(w1)
             /\ last_result' = Result("roll", FALSE, cp, FALSE, 0)
             /\ ghost' = [ghost EXCEPT !.landing = "jail", !.rent = 0,
                                       !.pre_money = w1.money]
        ELSE LET w2 == move_player(w1, cp, total)
                 mp == get_cell_at_position(w2.position[cp])
                 type == process_landing_type(w2, cp)
             IN /\ ev \in landing_events(w2, cp)
                /\ SetWorld(process_landing(w2, cp, ev, players))
                /\ buy_button' =
                     IF type = "purchase_option" /\ w2.money[cp] >= CellAt(mp).price
                     THEN "normal" ELSE buy_button
                /\ upgrade_button' =
                     IF /\ type = "upgrade_option"
                        /\ can_upgrade(w2, mp)
                        /\ w2.money[cp] >= CellAt(mp).upgrade_cost
                     THEN "normal" ELSE upgrade_button
                /\ end_turn_button' = "normal"
                /\ roll_button' = "disabled"
                /\ last_dice_result' = total
                /\ last_result' = Result("roll", TRUE, cp, FALSE, total)
                /\ ghost' = [ghost EXCEPT
                               !.landing = type,
                               !.rent = IF type = "rent_paid" THEN get_rent(w2, mp) ELSE 0,
                               !.pre_money = w2.money]
                /\ UNCHANGED <<players, current_player_index, game_state, turn_count>>
  /\ UNCHANGED <<histvars, ai_players, factories, game_saves, threads>>

\* GameWindow._buy_property
BuyProperty ==
  /\ buy_button = "normal"
  /\ get_current_player # None
  /\ LET cp == get_current_player
         mp == get_cell_at_position(position[cp])
         ok == mp # NoneVal /\ purchase_property_ok(World, cp, mp)
     IN /\ SetWorld(IF mp # NoneVal THEN purchase_property(World, cp, mp) ELSE World)
        /\ buy_button' = IF ok THEN "disabled" ELSE buy_button
        /\ last_result' = Result("buy", ok, cp, FALSE, 0)
  /\ UNCHANGED <<histvars, ai_players, factories, game_saves, threads, players, current_player_index, game_state, turn_count,
                 last_dice_result, roll_button, upgrade_button, end_turn_button,
                 ghost, ops>>

\* GameWindow._upgrade_property
UpgradeProperty ==
  /\ upgrade_button = "normal"
  /\ get_current_player # None
  /\ LET cp == get_current_player
         mp == get_cell_at_position(position[cp])
         ok == mp # NoneVal /\ upgrade_property_ok(World, cp, mp)
     IN /\ SetWorld(IF mp # NoneVal THEN upgrade_property(World, cp, mp) ELSE World)
        /\ upgrade_button' = IF ok THEN "disabled" ELSE upgrade_button
        /\ last_result' = Result("upgrade", ok, cp, FALSE, 0)
  /\ UNCHANGED <<histvars, ai_players, factories, game_saves, threads, players, current_player_index, game_state, turn_count,
                 last_dice_result, roll_button, buy_button, end_turn_button,
                 ghost, ops>>

\* GameWindow._end_turn from the end-turn button
EndTurn ==
  /\ end_turn_button = "normal"
  /\ end_turn(World)
  /\ last_result' = Result("end_turn", TRUE, get_current_player, FALSE, 0)
  /\ UNCHANGED <<histvars, ai_players, factories, game_saves, threads, ghost, ops>>

\* every event of the two decks, and the draw of a cell that is no event cell
AllEvents ==
  {chance_events[i] : i \in 1..Len(chance_events)}
    \cup {misfortune_events[i] : i \in 1..Len(misfortune_events)}
    \cup {[key |-> "none", value |-> 0]}

\* the initial money of the default configuration and the smallest the start
\* page offers
InitialMoneyOptions == {initial_money, low_initial_money}

\* the window of a game whose players have been created
InitGame ==
  /\ layer = "business"
  /\ \E m \in InitialMoneyOptions : InitCommon(m)

NextGame ==
  \/ \E order \in Orders(registered) : StartGame(order)
  \/ \E total \in DiceTotals, ev \in AllEvents : RollDice(total, ev)
  \/ BuyProperty
  \/ UpgradeProperty
  \/ EndTurn

SpecGame == InitGame /\ [][NextGame]_vars

(* ------------- the engine's interface (game_manager.py) --------------- *)
\* GameManager.create_player: the new player takes the next id
CreatePlayer ==
  /\ Len(players) < MaxPlayers
  /\ players' = Append(players, Len(players) + 1)
  /\ last_result' = Result("create_player", TRUE, Len(players) + 1, FALSE, 0)
  /\ ghost' = [ghost EXCEPT !.turns = <<>>]
  /\ UNCHANGED <<worldvars, histvars, ai_players, factories, game_saves, threads, current_player_index, game_state, turn_count,
                 last_dice_result, roll_button, buy_button, upgrade_button,
                 end_turn_button, ops>>

\* the saved games a run restores: a running game of two or more players,
\* any of them bankrupt, any of them the current one
SavedGames ==
  {sv \in [count : 2..MaxPlayers, is_bankrupt : [Players -> BOOLEAN],
           current_player_index : 0..(MaxPlayers - 1)] :
     /\ sv.current_player_index < sv.count
     /\ \A p \in Players : p > sv.count => ~sv.is_bankrupt[p]}

\* GameManager.load_game into a new engine
LoadGame(save) ==
  /\ players = <<>>
  /\ game_state = "waiting"
  /\ ops = 0
  /\ players' = [i \in 1..save.count |-> i]
  /\ is_bankrupt' = save.is_bankrupt
  /\ current_player_index' = save.current_player_index
  /\ game_state' = "playing"
  /\ turn_count' = 1
  /\ last_result' = Result("load_game", TRUE, 0, FALSE, 0)
  /\ UNCHANGED <<money, position, is_in_jail, jail_turns, properties, items,
                 owner_id, level, special_effects, config, histvars, ai_players,
                 factories, game_saves, threads,
                 last_dice_result,
                 roll_button, buy_button, upgrade_button, end_turn_button,
                 ghost, ops>>

\* GameManager.start_game: the return value
start_game_ok(order) == Len(order) >= 2

\* GameManager.start_game; order is what random.shuffle leaves
StartGameApi(order) ==
  /\ ops < MaxEngineOps
  /\ ops' = ops + 1
  /\ order \in Orders(registered)
  /\ IF start_game_ok(players)
     THEN /\ game_state' = "playing"
          /\ current_player_index' = 0
          /\ turn_count' = 1
          /\ players' = order
          /\ ghost' = [ghost EXCEPT !.rolled = FALSE, !.turns = <<>>]
     ELSE UNCHANGED <<game_state, current_player_index, turn_count, players, ghost>>
  /\ last_result' = Result("start_game", start_game_ok(players), 0, FALSE, 0)
  /\ UNCHANGED <<worldvars, histvars, ai_players, factories, game_saves, threads, last_dice_result, roll_button, buy_button,
                 upgrade_button, end_turn_button>>

\* GameManager.roll_dice with the dice showing total
RollDiceApi(total) ==
  /\ ops < MaxEngineOps
  /\ ops' = ops + 1
  /\ last_dice_result' = total
  /\ last_result' = Result("roll_dice", TRUE, get_current_player, ghost.rolled, total)
  /\ ghost' = [ghost EXCEPT !.rolled = (game_state = "playing")]
  /\ UNCHANGED <<worldvars, histvars, ai_players, factories, game_saves, threads, players, current_player_index, game_state,
                 turn_count, roll_button, buy_button, upgrade_button,
                 end_turn_button>>

\* GameManager.next_turn; the result carries the index that was current
\* when it was called and whether the game was finished then
\* The indexes the successful calls made current are noted in order, from
\* the last change of the player list on (a player created, a game started).
NextTurnApi ==
  /\ ops < MaxEngineOps
  /\ ops' = ops + 1
  /\ LET ok == next_turn_ok(World, players, game_state)
         ni == IF ok THEN next_player_index(World, players, current_player_index)
               ELSE current_player_index
     IN /\ game_state' = IF game_state = "playing" /\ ~ok THEN "finished"
                         ELSE game_state
        /\ current_player_index' = ni
        /\ turn_count' = IF ok /\ ni = 0 THEN turn_count + 1 ELSE turn_count
        /\ last_result' = Result("next_turn", ok, 0, game_state = "finished",
                                current_player_index)
        /\ ghost' = [ghost EXCEPT !.rolled = IF ok THEN FALSE ELSE @,
                                  !.turns = IF ok THEN Append(@, ni) ELSE @]
  /\ UNCHANGED <<worldvars, histvars, ai_players, factories, game_saves, threads, players, last_dice_result, roll_button,
                 buy_button, upgrade_button, end_turn_button>>

NextTurn ==
  \/ CreatePlayer
  \/ \E save \in SavedGames : LoadGame(save)
  \/ \E order \in Orders(registered) : StartGameApi(order)
  \/ \E total \in DiceTotals : RollDiceApi(total)
  \/ NextTurnApi

\* a new engine with no player registered
InitTurn ==
  /\ layer = "business"
  /\ InitState(initial_money, <<>>)

SpecTurn == InitTurn /\ [][NextTurn]_vars

\* the step counts a run moves a player by: none, one, up to the last cell,
\* one and two full laps
MoveSteps == {0, 1, 12, board_size - 1, board_size, 2 * board_size}

\* GameManager.move_player
MovePlayerApi(p, steps) ==
  /\ ops < MaxEngineOps
  /\ ops' = ops + 1
  /\ p \in registered
  /\ SetWorld(move_player(World, p, steps))
  /\ last_result' = Result("move_player", TRUE, p,
                           move_player_passed_start(World, p, steps), steps)
  /\ UNCHANGED <<histvars, turnvars, ghost>>

NextMove == \E p \in Players, steps \in MoveSteps : MovePlayerApi(p, steps)

\* the engine of a game whose players have been created, moving them
SpecMove == InitGame /\ [][NextMove]_vars

\* the cells a run buys and upgrades: a chance cell, a cheap property, a dear
\* property and the landmark
DealCells == {2, 3, 34, 36}

\* the step count a run moves a player by before a landing
DealSteps == {1}

\* the events a run draws on an event cell: the purchase discount and a gift
DealEvents ==
  {chance_events[10], chance_events[1], [key |-> "none", value |-> 0]}

\* the discount a drawn event promises the player, if any
drawn_discount(w, p, ev) ==
  IF process_landing_type(w, p) = "chance_event" /\ ev.key = "discount"
  THEN ev.value ELSE None

\* GameManager.process_landing for a player standing on a cell; ev is the
\* event an event cell draws.  The discount the event promises is noted.
ProcessLandingApi(p, ev) ==
  /\ ops < MaxEngineOps
  /\ ops' = ops + 1
  /\ p \in registered
  /\ ev \in landing_events(World, p)
  /\ SetWorld(process_landing(World, p, ev, players))
  /\ last_result' = Result("process_landing", TRUE, p, FALSE, 0)
  /\ ghost' = IF drawn_discount(World, p, ev) # None
              THEN [ghost EXCEPT !.discount[p] = drawn_discount(World, p, ev)]
              ELSE ghost
  /\ UNCHANGED <<histvars, turnvars>>

\* GameManager.purchase_property; a purchase that succeeds uses up the
\* discount noted for the player
PurchaseApi(p, mp) ==
  /\ ops < MaxEngineOps
  /\ ops' = ops + 1
  /\ p \in registered
  /\ SetWorld(purchase_property(World, p, mp))
  /\ last_result' = Result("purchase_property", purchase_property_ok(World, p, mp),
                           p, FALSE, mp)
  /\ ghost' = IF purchase_property_ok(World, p, mp)
              THEN [ghost EXCEPT !.discount[p] = None]
              ELSE ghost
  /\ UNCHANGED <<histvars, turnvars>>

\* GameManager.upgrade_property
UpgradeApi(p, mp) ==
  /\ ops < MaxEngineOps
  /\ ops' = ops + 1
  /\ p \in registered
  /\ SetWorld(upgrade_property(World, p, mp))
  /\ last_result' = Result("upgrade_property", upgrade_property_ok(World, p, mp),
                           p, FALSE, mp)
  /\ UNCHANGED <<histvars, turnvars, ghost>>

NextDeal ==
  \/ \E p \in Players, steps \in DealSteps : MovePlayerApi(p, steps)
  \/ \E p \in Players, ev \in DealEvents : ProcessLandingApi(p, ev)
  \/ \E p \in Players, mp \in DealCells : PurchaseApi(p, mp)
  \/ \E p \in Players, mp \in DealCells : UpgradeApi(p, mp)

\* the engine of a game whose players have been created, landing, buying and
\* upgrading
SpecDeal == InitGame /\ [][NextDeal]_vars

\* the levels a cell can be at
Levels == EMPTY..HOTEL

\* MapCell.get_rent of cell mp of a map that holds it at level n, every other
\* cell at level none
GetRent(mp, n) ==
  /\ level' = [m \in MapPositions |-> IF m = mp THEN n ELSE EMPTY]
  /\ last_result' =
       Result("get_rent", TRUE, mp, FALSE, get_rent([World EXCEPT !.level[mp] = n], mp))
  /\ UNCHANGED <<money, position, is_in_jail, jail_turns, is_bankrupt, properties,
                 items, owner_id, special_effects, config, histvars, turnvars,
                 ghost, ops>>

NextRent == \E mp \in MapPositions, n \in Levels : GetRent(mp, n)

\* the cells of the board at every level, asked for their rent
SpecRent == InitGame /\ [][NextRent]_vars

(* ------------------------------- claims -------------------------------- *)
\* the command ids the history holds
HistoryIds == {command_history[i] : i \in 1..Len(command_history)}

\* C1: whenever every command executed through the history has been undone
\* again (cursor at -1, nothing evicted since the history was last empty),
\* each player's cash, position and owned list and each cell's owner and
\* level equal their values before the sequence.
C1_RoundTrip ==
  (current_index = -1 /\ ~ghost.evicted) => Core(World) = Core(ghost.base)

\* C2: a macro command that reports failure leaves all player and cell
\* state equal to the state before its execute was called.
C2_MacroAtomic ==
  [][(last_result'.op = "macro" /\ ~last_result'.ok) => World' = World]_vars

C5_CursorInvariant ==
  /\ -1 <= current_index
  /\ current_index <= Len(command_history) - 1
  /\ Len(command_history) <= max_history
  /\ (last_result.op = "execute_command" /\ last_result.ok) =>
       (current_index >= 0 /\ command_history[current_index + 1] = last_result.id)

\* C5 witness: an execute_command has evicted the oldest entry of a full history.
C5_Witness ==
  /\ last_result.op = "execute_command"
  /\ last_result.ok
  /\ last_result.flag
  /\ Len(command_history) = max_history
  /\ command_history[current_index + 1] = last_result.id

\* C6: after a successful execute_command nothing can be redone, a redo
\* called next fails and changes nothing, and a command that was in the redo
\* tail when an execute_command succeeded is never in the history again.
C6_NoRedoAfterExecute ==
  /\ []((last_result.op = "execute_command" /\ last_result.ok)
          => ~can_redo(command_history, current_index))
  /\ [](ghost.dropped \cap HistoryIds = {})
  /\ [][(last_result.op = "execute_command" /\ last_result.ok /\ last_result'.op = "redo")
          => (~last_result'.ok /\ World' = World /\ commands' = commands
              /\ current_index' = current_index)]_vars

\* C6 witness: an execute_command succeeded after an undo and dropped the
\* undone command from the history.
C6_Witness ==
  /\ last_result.op = "execute_command"
  /\ last_result.ok
  /\ last_result.amount > 0
  /\ ghost.dropped # {}
  /\ ~can_redo(command_history, current_index)

\* C7: execute() on a command that has executed and was not undone returns
\* failure and changes no player or cell state and no undo snapshot.
C7_ExecuteGuarded ==
  [][(last_result'.op = "cmd_execute" /\ last_result'.flag)
       => (~last_result'.ok /\ World' = World /\ commands' = commands)]_vars

\* C8: undo() on a command that is not in the executed state (never
\* executed successfully, or undone since its last execute) returns failure
\* and changes no player or cell state.
C8_UndoGuarded ==
  [][(last_result'.op = "cmd_undo" /\ ~last_result'.flag)
       => (~last_result'.ok /\ World' = World /\ commands' = commands)]_vars

\* C8 witness: undo() was refused on a move command of the business layer
\* that is not in the executed state.
C8_Witness ==
  /\ last_result.op = "cmd_undo"
  /\ ~last_result.flag
  /\ ~last_result.ok
  /\ layer = "business"
  /\ commands[last_result.id].kind = "Move"

\* C9: a history undo or redo that succeeds moves the cursor by exactly one;
\* one that fails leaves the cursor and the history contents as they were,
\* and with nothing to undo or redo it leaves all player, cell and command
\* state as it was.
C9_UndoRedoResult ==
  [][/\ (last_result'.op = "undo" /\ last_result'.ok)
          => current_index' = current_index - 1
     /\ (last_result'.op = "redo" /\ last_result'.ok)
          => current_index' = current_index + 1
     /\ (last_result'.op \in {"undo", "redo"} /\ ~last_result'.ok)
          => (current_index' = current_index /\ command_history' = command_history)
     /\ (last_result'.op \in {"undo", "redo"} /\ ~last_result'.ok /\ ~last_result'.flag)
          => (World' = World /\ commands' = commands)
     /\ (last_result'.op \in {"undo", "redo"}) => command_history' = command_history]_vars

\* C9 witness: a history undo reached a command whose own undo() failed, and
\* the cursor still designates that command.
C9_Witness ==
  /\ last_result.op = "undo"
  /\ ~last_result.ok
  /\ last_result.flag
  /\ current_index >= 0
  /\ command_history[current_index + 1] = last_result.id

\* C10: a landing that charges rent either moves the full rent from the
\* payer to the owner, or - the payer's cash being below the rent - changes
\* nobody's cash.
C10_RentAllOrNothing ==
  (last_result.op = "roll" /\ ghost.landing = "rent_paid") =>
    LET payer == last_result.id
        owner == owner_id[get_cell_at_position(position[payer])]
        pre == ghost.pre_money
    IN \/ /\ money[payer] = pre[payer] - ghost.rent
          /\ money[owner] = pre[owner] + ghost.rent
          /\ \A q \in Players \ {payer, owner} : money[q] = pre[q]
       \/ /\ pre[payer] < ghost.rent
          /\ money = pre

\* a step of the engine's interface that made the call op
ApiStep(op) == ops' = ops + 1 /\ last_result'.op = op

\* C11: start_game succeeds only when at least two players that are not
\* bankrupt are registered; a start that fails leaves the game state waiting
\* and the player order as it was; a start that succeeds takes the state from
\* waiting to playing, makes index 0 current and leaves the turn order a
\* permutation of the registered players.
C11_StartGame ==
  [][ApiStep("start_game") =>
       /\ last_result'.ok => Cardinality(active_players(World, players)) >= 2
       /\ ~last_result'.ok =>
            /\ game_state = "waiting"
            /\ game_state' = "waiting"
            /\ players' = players
       /\ last_result'.ok =>
            /\ game_state = "waiting"
            /\ game_state' = "playing"
            /\ current_player_index' = 0
            /\ players' \in Orders(registered)]_vars

\* C12: roll_dice is accepted only while the game is playing and the current
\* player has not rolled in this turn; a second roll in the turn, or a roll
\* while waiting or finished, fails and leaves the last dice result and the
\* players' positions and cash as they were.
C12_RollGuarded ==
  [][(ApiStep("roll_dice") /\ (game_state # "playing" \/ ghost.rolled)) =>
       /\ ~last_result'.ok
       /\ last_dice_result' = last_dice_result
       /\ World' = World]_vars

\* C13: move_player with steps >= 0 sets the position to (position + steps)
\* mod the board length, credits the start bonus exactly once if and only if
\* the move wrapped (old position + steps >= board length) and returns that
\* as passed_start; a move that does not wrap changes no cash; the position
\* stays in 0..board length - 1 and nobody else is moved or paid.
C13_MovePlayer ==
  [][ApiStep("move_player") =>
       LET p == last_result'.id
           steps == last_result'.amount
           wrapped == position[p] + steps >= board_size
       IN /\ steps >= 0
          /\ position'[p] = (position[p] + steps) % board_size
          /\ position'[p] \in 0..(board_size - 1)
          /\ last_result'.flag = wrapped
          /\ money'[p] = IF wrapped THEN money[p] + start_bonus ELSE money[p]
          /\ \A q \in Players \ {p} :
               money'[q] = money[q] /\ position'[q] = position[q]]_vars

\* C13 witness: a player standing on start was moved by a full lap, is on
\* start again and has been paid the bonus once.
C13_Witness ==
  /\ last_result.op = "move_player"
  /\ last_result.amount = board_size
  /\ last_result.flag
  /\ position[last_result.id] = 0
  /\ money[last_result.id] \in {m + start_bonus : m \in InitialMoneyOptions}

\* the player at index i of the turn order is bankrupt
BankruptAt(i) == is_bankrupt[players[i + 1]]

\* C14: in a running game with at least two players that are not bankrupt,
\* next_turn succeeds and makes the next player in cyclic order that is not
\* bankrupt the current one: every player it passes over is bankrupt, the one
\* it stops at is not, and the turn order is left as it was.
C14_NextPlayer ==
  [][(/\ ApiStep("next_turn")
      /\ game_state = "playing"
      /\ Cardinality(active_players(World, players)) >= 2) =>
       LET n == Len(players)
           i == current_player_index
           j == current_player_index'
       IN /\ last_result'.ok
          /\ game_state' = "playing"
          /\ players' = players
          /\ ~BankruptAt(j)
          /\ \E d \in 1..n :
               /\ j = (i + d) % n
               /\ \A e \in 1..(d - 1) : BankruptAt((i + e) % n)]_vars

\* C14 witness: next_turn succeeded and passed over a bankrupt player, the
\* one between the player that was current and the one that is current now.
C14_Witness ==
  /\ last_result.op = "next_turn"
  /\ last_result.ok
  /\ game_state = "playing"
  /\ Len(players) >= 3
  /\ current_player_index = (last_result.amount + 2) % Len(players)
  /\ ~BankruptAt(current_player_index)
  /\ BankruptAt((last_result.amount + 1) % Len(players))

\* the number of registered players that are not bankrupt
ActiveCount == Cardinality(active_players(World, players))

\* what next_turn does at the end of a game: called in a running game with
\* at most one player that is not bankrupt it moves the state to finished;
\* called in a finished game it fails and changes neither the current index
\* nor the round counter
C15_NextTurnAtEnd ==
  ApiStep("next_turn") =>
    /\ (game_state = "playing" /\ ActiveCount <= 1) =>
         /\ game_state' = "finished"
         /\ ~last_result'.ok
    /\ game_state = "finished" =>
         /\ ~last_result'.ok
         /\ game_state' = "finished"
         /\ current_player_index' = current_player_index
         /\ turn_count' = turn_count

C16_Purchase ==
  [][ApiStep("purchase_property") =>
       LET p == last_result'.id
           mp == last_result'.amount
           price == CellAt(mp).price
       IN CellAt(mp).cell_type \in PropertyLike =>
            IF owner_id[mp] = None /\ money[p] >= price
            THEN /\ last_result'.ok
                 /\ money' = [money EXCEPT ![p] = @ - price]
                 /\ owner_id' = [owner_id EXCEPT ![mp] = p]
                 /\ properties' = [properties EXCEPT ![p] = Append(@, mp)]
                 /\ level' = level
                 /\ level'[mp] = EMPTY
            ELSE /\ ~last_result'.ok
                 /\ money' = money
                 /\ owner_id' = owner_id
                 /\ level' = level
                 /\ properties' = properties
                 /\ special_effects' = special_effects]_vars

\* C16 witness: a player who started with 5000 and bought cell 34 for 3200
\* has just been refused the landmark for 4000: 1800 left, cell 34 owned at
\* level none, the landmark without owner.
C16_Witness ==
  /\ last_result.op = "purchase_property"
  /\ ~last_result.ok
  /\ last_result.amount = 36
  /\ owner_id[36] = None
  /\ owner_id[34] = last_result.id
  /\ level[34] = EMPTY
  /\ properties[last_result.id] = <<34>>
  /\ money[last_result.id] = low_initial_money - CellAt(34).price

\* C17: after a player has drawn the purchase-discount event, that player's
\* next purchase that succeeds costs int(price * rate) and the discount is
\* gone after it; a purchase by a player for whom no drawn discount is
\* waiting (none drawn, already used, or drawn by somebody else) costs the
\* full price; a purchase that fails in between leaves the discount waiting.
C17_Discount ==
  [][(ApiStep("purchase_property") /\ last_result'.ok) =>
       LET p == last_result'.id
           price == CellAt(last_result'.amount).price
           rate == ghost.discount[p]
       IN money'[p] = money[p] - (IF rate # None THEN (price * rate) \div 100
                                  ELSE price)]_vars

\* the map cell a purchase or upgrade command is about
CommandCell(c) ==
  IF c.layer = "business" THEN get_cell_at_position(c.cell_position) ELSE c.cell

\* C18: undo() of an executed purchase command refunds exactly the amount
\* the purchase debited, clears the owner of the cell, removes the cell from
\* the buyer's owned cells and leaves every level as it was.
C18_PurchaseUndo ==
  [][(/\ last_result'.op = "cmd_undo"
      /\ last_result'.ok
      /\ commands[last_result'.id].kind = "Purchase") =>
       LET c == commands[last_result'.id]
           p == c.player_id
           mp == CommandCell(c)
       IN /\ money' = [money EXCEPT ![p] = @ + CellAt(mp).price]
          /\ owner_id' = [owner_id EXCEPT ![mp] = None]
          /\ ~InSeq(mp, properties'[p])
          /\ level' = level]_vars

\* C19: upgrade_property succeeds only when the cell is owned by the
\* requesting player, its level is below the highest and the player's cash
\* is at least the upgrade cost; when it succeeds the level goes up by one
\* and the cash down by the cost; when it fails, levels and cash are left as
\* they were.
C19_Upgrade ==
  [][ApiStep("upgrade_property") =>
       LET p == last_result'.id
           mp == last_result'.amount
           cost == CellAt(mp).upgrade_cost
       IN /\ last_result'.ok =>
               /\ owner_id[mp] = p
               /\ level[mp] < HOTEL
               /\ money[p] >= cost
               /\ level' = [level EXCEPT ![mp] = @ + 1]
               /\ money' = [money EXCEPT ![p] = @ - cost]
          /\ ~last_result'.ok =>
               /\ level' = level
               /\ money' = money]_vars

\* a cell that bears rent: its rent at level none is positive
RentBearing(mp) == get_rent([World EXCEPT !.level[mp] = EMPTY], mp) > 0

\* C20: for every cell that bears rent, held at any level below the highest,
\* the rent at the next level is strictly greater than the rent at the level
\* it is at.
C20_RentMonotone ==
  (last_result.op = "get_rent" /\ RentBearing(last_result.id)
     /\ level[last_result.id] < HOTEL) =>
    /\ last_result.amount = get_rent(World, last_result.id)
    /\ get_rent([World EXCEPT !.level[last_result.id] = @ + 1], last_result.id)
         > last_result.amount

\* C20 witness: the landmark with three houses, rent 4000, below the 8000
\* of a hotel.
C20_Witness ==
  /\ last_result.op = "get_rent"
  /\ last_result.id = 36
  /\ RentBearing(36)
  /\ level[36] = HOTEL - 1
  /\ last_result.amount = 8 * CellAt(36).rent_base
  /\ get_rent([World EXCEPT !.level[36] = HOTEL], 36) = 16 * CellAt(36).rent_base

(* -------------------- cells, jail, events, saving ---------------------- *)

\* the cell can carry an owner and houses
OwnableCell(mp) == CellAt(mp).cell_type \in PropertyLike

\* C21: in every reachable state only cells of the property-like categories
\* (property, airport, utility, landmark) have an owner or a level above
\* none; no purchase or upgrade gives an owner or a level to a start, chance,
\* misfortune, tax, jail, send-to-jail or free-parking cell.
C21_OnlyOwnableOwned ==
  \A mp \in MapPositions :
    ~OwnableCell(mp) => (owner_id[mp] = None /\ level[mp] = EMPTY)

(* ------------------- a game restored from a snapshot ------------------- *)
\* the engine after GameManager.load_game of a snapshot of a game in play:
\* w is what the snapshot holds of the players, the cells and the
\* configuration, ai the difficulty of its automated players, lay the layer
\* whose commands the client constructs
InitLoadedIn(lay, w, ai) ==
  /\ money = w.money
  /\ position = w.position
  /\ is_in_jail = w.is_in_jail
  /\ jail_turns = w.jail_turns
  /\ is_bankrupt = w.is_bankrupt
  /\ properties = w.properties
  /\ items = w.items
  /\ owner_id = w.owner_id
  /\ level = w.level
  /\ special_effects = w.special_effects
  /\ config = w.config
  /\ layer = lay
  /\ commands = <<>>
  /\ command_history = <<>>
  /\ current_index = -1
  /\ players = [i \in 1..MaxPlayers |-> i]
  /\ ai_players = ai
  /\ factories = no_factories
  /\ game_saves = <<>>
  /\ threads = no_threads
  /\ current_player_index = 0
  /\ game_state = "playing"
  /\ turn_count = 1
  /\ last_dice_result = None
  /\ roll_button = "disabled"
  /\ buy_button = "disabled"
  /\ upgrade_button = "disabled"
  /\ end_turn_button = "disabled"
  /\ last_result = Result("load_game", TRUE, 0, FALSE, 0)
  /\ ghost = InitGhost(w)
  /\ ops = 0

\* the same with the commands of the business layer
InitLoaded(w, ai) == InitLoadedIn("business", w, ai)

\* the jail_turns a configuration carries: the default and the easy template
JailTurnsOptions == {config_jail_turns, 2}

\* cash too small for the birthday gift and for the rent of the cheapest cell
poor_money == 40

\* the player positions a snapshot leaves player 1 on: the chance cell 2, the
\* property 3, the misfortune cell 7 and the send-to-jail cell 30
LandPositions == {1, 2, 6, 29}

\* the items a snapshot leaves with player 1
WaiverStocks == {<<>>, <<RentWaiver>>, <<RentWaiver, RentWaiver>>}

\* a snapshot of a game in which player 2 has bought the property 3: player 1
\* stands on pos holding its, the players of poor are short of cash, those of
\* bankrupt are out of the game, jt is the configured stay in jail
LandWorld(pos, its, poor, bankrupt, jt) ==
  LET w == purchase_property(InitWorld(low_initial_money), 2, 3)
  IN [w EXCEPT
        !.money = [p \in Players |-> IF p \in poor THEN poor_money ELSE w.money[p]],
        !.is_bankrupt = [p \in Players |-> p \in bankrupt],
        !.position[1] = pos,
        !.items[1] = its,
        !.config = [jail_turns |-> jt]]

InitLand ==
  \E pos \in LandPositions, its \in WaiverStocks, poor \in SUBSET Players,
     bankrupt \in SUBSET (Players \ {1}), jt \in JailTurnsOptions :
    InitLoaded(LandWorld(pos, its, poor, bankrupt, jt),
               [p \in Players |-> "human"])

\* the events a run draws on the event cells: the birthday and the found
\* rent waiver; two fines and the arrest
LandEvents ==
  {chance_events[8], chance_events[7],
   misfortune_events[1], misfortune_events[4], misfortune_events[3],
   [key |-> "none", value |-> 0]}

\* GameManager.process_landing for a player standing on a cell; ev is the
\* event an event cell draws.  The kind of landing and the event are noted.
Landing(p, ev) ==
  /\ ops < MaxLandings
  /\ ops' = ops + 1
  /\ p \in registered
  /\ ev \in landing_events(World, p)
  /\ SetWorld(process_landing(World, p, ev, players))
  /\ last_result' = Result("process_landing", TRUE, p, FALSE, 0)
  /\ ghost' = [ghost EXCEPT !.landing = process_landing_type(World, p),
                            !.event = ev]
  /\ UNCHANGED <<histvars, turnvars>>

NextLand == \E p \in Players, ev \in LandEvents : Landing(p, ev)

\* the engine of a restored game, its players landing where they stand
SpecLand == InitLand /\ [][NextLand]_vars

\* how many times x is in the list s
CountOf(x, s) == Cardinality({i \in 1..Len(s) : s[i] = x})

\* a step that is player p's landing
LandingStep(p) == ApiStep("process_landing") /\ last_result'.id = p

\* the map cell player p stands on
StandsOn(p) == get_cell_at_position(position[p])

\* player p stands on a cell another player owns
OnOthersProperty(p) ==
  /\ StandsOn(p) # NoneVal
  /\ OwnableCell(StandsOn(p))
  /\ owner_id[StandsOn(p)] \notin {None, p}

\* C22: a landing on another player's property by a payer holding at least
\* one rent waiver removes exactly one waiver from the payer's items and
\* changes nobody's cash; a landing without a waiver (the second landing of a
\* payer who held one) pays the rent: no item goes, and a payer who has the
\* rent is debited it and the owner credited it.
C22_RentWaiver ==
  [][\A p \in Players :
       (LandingStep(p) /\ OnOthersProperty(p)) =>
         LET mp == StandsOn(p)
             rent == get_rent(World, mp)
         IN IF CountOf(RentWaiver, items[p]) >= 1
            THEN /\ CountOf(RentWaiver, items'[p]) = CountOf(RentWaiver, items[p]) - 1
                 /\ Len(items'[p]) = Len(items[p]) - 1
                 /\ \A q \in Players \ {p} : items'[q] = items[q]
                 /\ money' = money
            ELSE /\ items' = items
                 /\ money[p] >= rent =>
                      /\ money'[p] = money[p] - rent
                      /\ money'[owner_id[mp]] = money[owner_id[mp]] + rent
    ]_vars

\* two landings of a payer who held one waiver: the first took the waiver,
\* the second paid the rent of 50
C22_Witness ==
  /\ ops = 2
  /\ ghost.base.items[1] = <<RentWaiver>>
  /\ items[1] = <<>>
  /\ ghost.landing = "rent_paid"
  /\ money[1] = ghost.base.money[1] - 50
  /\ money[2] = ghost.base.money[2] + 50

\* the landing of this step sends the player to jail: the send-to-jail cell,
\* or an event cell whose event is the arrest
SentToJail ==
  \/ ghost'.landing = "go_to_jail"
  \/ /\ ghost'.landing \in {"chance_event", "misfortune_event"}
     /\ ghost'.event.key = "go_to_jail"

\* C23: a landing on the send-to-jail cell, or one that draws the go-to-jail
\* event, leaves the player in jail: the flag is set, the player's position
\* designates the jail cell of the board, and the jail-turn counter equals
\* the configured jail_turns.
C23_GoToJail ==
  [][\A p \in Players :
       (LandingStep(p) /\ SentToJail) =>
         /\ is_in_jail'[p]
         /\ get_cell_at_position(position'[p]) # NoneVal
         /\ CellAt(get_cell_at_position(position'[p])).cell_type = "jail"
         /\ jail_turns'[p] = config.jail_turns
    ]_vars

\* the landing of this step drew an event of the kind key
DrewEvent(key) ==
  /\ ghost'.landing \in {"chance_event", "misfortune_event"}
  /\ ghost'.event.key = key

\* C26: an event with a negative cash delta takes its full magnitude from the
\* player's cash, also when the player holds less than that, which leaves
\* the cash negative.
C26_EventDebit ==
  [][\A p \in Players :
       (LandingStep(p) /\ DrewEvent("money") /\ ghost'.event.value < 0) =>
         money'[p] = money[p] + ghost'.event.value
    ]_vars

\* the cash of the players of S together
RECURSIVE TotalCash(_, _)
TotalCash(m, S) ==
  IF S = {} THEN 0
  ELSE LET q == CHOOSE x \in S : TRUE
       IN m[q] + TotalCash(m, S \ {q})

\* C27: the collect-from-everyone event takes the per-head amount from every
\* other player who is not bankrupt and whose cash covers it, nothing from
\* bankrupt players, from players who cannot afford it, or from the drawer,
\* and credits the drawer exactly the sum taken: the total cash of the
\* players is unchanged.
C27_Birthday ==
  [][\A p \in Players :
       (LandingStep(p) /\ DrewEvent("birthday")) =>
         LET amount == ghost'.event.value
             payers == {q \in registered \ {p} :
                          ~is_bankrupt[q] /\ money[q] >= amount}
         IN /\ \A q \in payers : money'[q] = money[q] - amount
            /\ \A q \in Players \ (payers \cup {p}) : money'[q] = money[q]
            /\ money'[p] = money[p] + amount * Cardinality(payers)
            /\ TotalCash(money', Players) = TotalCash(money, Players)
    ]_vars

\* player 1 drew the birthday: player 2 paid the 50, the bankrupt player 3,
\* who has the cash, paid nothing
C27_Witness ==
  /\ ops = 1
  /\ last_result.id = 1
  /\ ghost.event.key = "birthday"
  /\ money[1] = ghost.base.money[1] + 50
  /\ money[2] = ghost.base.money[2] - 50
  /\ is_bankrupt[3]
  /\ money[3] = ghost.base.money[3]
  /\ money[3] >= 50

(* ------------------------- jail (ai_strategy.py) ----------------------- *)
\* AIStrategy.decide_jail_action of the strategy of a difficulty; coin is
\* what the comparison with random.random() gives
decide_jail_action(difficulty, w, p, coin) ==
  IF difficulty = "easy"
  THEN IF w.money[p] > 3000 /\ w.jail_turns[p] > 1
       THEN (IF coin THEN "pay" ELSE "wait")
       ELSE "wait"
  ELSE IF difficulty = "hard"
  THEN IF InSeq(JailWaiver, w.items[p]) THEN "use_item"
       ELSE IF w.money[p] > 1500 THEN "pay"
       ELSE IF w.jail_turns[p] >= 2
       THEN (IF w.money[p] >= 500 THEN "pay" ELSE "wait")
       ELSE "wait"
  ELSE IF InSeq(JailWaiver, w.items[p]) THEN "use_item"
       ELSE IF w.money[p] > 2000
       THEN IF w.jail_turns[p] >= 2 THEN "pay"
            ELSE (IF coin THEN "wait" ELSE "pay")
       ELSE "wait"

\* GameManager.handle_ai_turn: what the player's strategy chooses, or "none"
\* when nothing is asked of it
ai_turn_decision(w, ai, p, coin) ==
  IF ai[p] = "human" \/ ~w.is_in_jail[p] THEN "none"
  ELSE decide_jail_action(ai[p], w, p, coin)

\* GameManager.handle_ai_turn: the effect
handle_ai_turn(w, ai, p, coin) ==
  LET jail_action == ai_turn_decision(w, ai, p, coin)
  IN IF jail_action = "pay" THEN try_leave_jail(w, p, TRUE)
     ELSE IF jail_action = "use_item" /\ InSeq(JailWaiver, w.items[p])
     THEN try_leave_jail([w EXCEPT !.items[p] = RemoveFirst(@, JailWaiver)], p, FALSE)
     ELSE IF jail_action = "wait" THEN try_leave_jail(w, p, FALSE)
     ELSE w

\* the stays in jail a snapshot holds: 0 is a player who is free
JailStays == 0..MaxJailTurns

\* the items a snapshot leaves with player 1
JailStocks ==
  {<<>>, <<JailWaiver>>, <<JailWaiver, JailWaiver>>, <<RentWaiver, JailWaiver>>}

\* the cash a snapshot leaves with player 1: below the fine, the fine, and
\* above the thresholds of the hard, the medium and the easy strategy
JailMoney == {400, jail_fine, 1800, 2500, low_initial_money}

Difficulties == {"easy", "medium", "hard"}

\* a snapshot of a game in which player 1 has stay turns of jail left
JailWorld(stay, its, m) ==
  LET w == InitWorld(low_initial_money)
      w1 == IF stay = 0 THEN w
            ELSE [go_to_jail(w, 1) EXCEPT !.jail_turns[1] = stay]
  IN [w1 EXCEPT !.money[1] = m, !.items[1] = its]

InitJail ==
  \E stay \in JailStays, its \in JailStocks, m \in JailMoney,
     d \in Difficulties \cup {"human"} :
    InitLoaded(JailWorld(stay, its, m),
               [p \in Players |-> IF p = 1 THEN d ELSE "human"])

\* Player.try_leave_jail, as the window's roll calls it for a jailed player
\* (pay_fine FALSE) and as a caller that pays calls it
TryLeaveJail(p, pay_fine) ==
  /\ ops < MaxJailOps
  /\ ops' = ops + 1
  /\ p \in registered
  /\ SetWorld(try_leave_jail(World, p, pay_fine))
  /\ last_result' = Result("try_leave_jail", try_leave_jail_ok(World, p, pay_fine),
                           p, pay_fine, 0)
  /\ ghost' = [ghost EXCEPT !.decision = IF pay_fine THEN "pay" ELSE "wait"]
  /\ UNCHANGED <<histvars, turnvars>>

\* GameManager.handle_ai_turn; the choice of the strategy is noted
HandleAiTurn(p, coin) ==
  /\ ops < MaxJailOps
  /\ ops' = ops + 1
  /\ p \in registered
  /\ SetWorld(handle_ai_turn(World, ai_players, p, coin))
  /\ last_result' = Result("handle_ai_turn", ai_players[p] # "human", p, coin, 0)
  /\ ghost' = [ghost EXCEPT !.decision = ai_turn_decision(World, ai_players, p, coin)]
  /\ UNCHANGED <<histvars, turnvars>>

NextJail ==
  \/ \E p \in Players, pay_fine \in BOOLEAN : TryLeaveJail(p, pay_fine)
  \/ \E p \in Players, coin \in BOOLEAN : HandleAiTurn(p, coin)

\* a restored game whose players sit in jail, wait, pay and use their waivers
SpecJail == InitJail /\ [][NextJail]_vars

\* C24: a jailed player with n >= 2 turns left who waits has n - 1 turns left
\* and is still in jail, at the same position with the same cash; a wait with
\* one turn left brings the counter to zero and sets the player free.
C24_Wait ==
  [][\A p \in Players :
       (/\ \/ ApiStep("try_leave_jail")
           \/ ApiStep("handle_ai_turn")
        /\ last_result'.id = p
        /\ ghost'.decision = "wait"
        /\ is_in_jail[p]
        /\ jail_turns[p] >= 1) =>
         /\ jail_turns'[p] = jail_turns[p] - 1
         /\ is_in_jail'[p] = (jail_turns[p] >= 2)
         /\ position' = position
         /\ money' = money
    ]_vars

\* player 1 has waited twice: from two turns left to one, in jail, and from
\* one to none, free
C24_Witness ==
  /\ ops = 2
  /\ ghost.decision = "wait"
  /\ ghost.base.is_in_jail[1]
  /\ ghost.base.jail_turns[1] = 2
  /\ jail_turns[1] = 0
  /\ ~is_in_jail[1]
  /\ money = ghost.base.money
  /\ position = ghost.base.position

\* a step that is handle_ai_turn for the jailed automated player p
AiJailStep(p) ==
  /\ ApiStep("handle_ai_turn")
  /\ last_result'.id = p
  /\ ai_players[p] # "human"
  /\ is_in_jail[p]

RequestNames ==
  {"standard", "easy", "medium", "hard", "custom", "HARD", "Easy", "expert", ""}

\* str.lower on the names of RequestNames
lower(name) ==
  IF name = "HARD" THEN "hard"
  ELSE IF name = "Easy" THEN "easy"
  ELSE name

FactoryClasses == {"StandardGameFactory", "EasyModeGameFactory", "HardModeGameFactory"}

\* GameFactoryManager._initialize_factories
initialize_factories ==
  [m \in ModeKeys |->
     IF m = "standard" THEN "StandardGameFactory"
     ELSE IF m = "easy" THEN "EasyModeGameFactory"
     ELSE IF m = "hard" THEN "HardModeGameFactory"
     ELSE "none"]

\* the registry after "if not cls._factories: cls._initialize_factories()"
ensure_factories(f) == IF f = no_factories THEN initialize_factories ELSE f

\* dict.get(key, default) on the registry
factories_get(f, key, default) ==
  IF key \in ModeKeys /\ f[key] # "none" THEN f[key] ELSE default

\* GameFactoryManager.get_factory: the class of the factory returned
get_factory(f, game_mode) ==
  factories_get(ensure_factories(f), lower(game_mode), "StandardGameFactory")

\* create_ai_strategy of the three factories: the class of the strategy
create_ai_strategy(factory_class, difficulty) ==
  LET d == lower(difficulty)
  IN IF factory_class = "StandardGameFactory"
     THEN IF d = "easy" THEN "EasyAIStrategy"
          ELSE IF d = "medium" THEN "MediumAIStrategy"
          ELSE IF d = "hard" THEN "HardAIStrategy"
          ELSE "MediumAIStrategy"
     ELSE IF factory_class = "HardModeGameFactory"
     THEN IF d = "easy" THEN "MediumAIStrategy"
          ELSE IF d = "medium" THEN "HardAIStrategy"
          ELSE IF d = "hard" THEN "HardAIStrategy"
          ELSE "HardAIStrategy"
     ELSE IF d = "easy" THEN "EasyAIStrategy"
          ELSE IF d = "medium" THEN "EasyAIStrategy"
          ELSE IF d = "hard" THEN "MediumAIStrategy"
          ELSE "EasyAIStrategy"

\* a call of the factory interface: its number, its result, its argument
FactoryCall(op, returned, asked) ==
  /\ ops < MaxFactoryCalls
  /\ ops' = ops + 1
  /\ last_result' = Result(op, TRUE, 0, FALSE, 0)
  /\ ghost' = [ghost EXCEPT !.request = asked, !.returned = returned]
  /\ UNCHANGED <<worldvars, histvars, players, ai_players, game_saves, threads,
                 current_player_index, game_state, turn_count, last_dice_result,
                 roll_button, buy_button, upgrade_button, end_turn_button>>

\* GameFactoryManager.get_factory
GetFactory(game_mode) ==
  /\ FactoryCall("get_factory", get_factory(factories, game_mode), game_mode)
  /\ factories' = ensure_factories(factories)

\* GameFactoryManager.register_factory
RegisterFactory(mode, factory_class) ==
  /\ lower(mode) \in ModeKeys
  /\ FactoryCall("register_factory", factory_class, mode)
  /\ factories' = [ensure_factories(factories) EXCEPT ![lower(mode)] = factory_class]

\* create_ai_strategy of a factory of the class factory_class
CreateAiStrategy(factory_class, difficulty) ==
  /\ FactoryCall(factory_class, create_ai_strategy(factory_class, difficulty),
                 difficulty)
  /\ UNCHANGED factories

NextFactory ==
  \/ \E game_mode \in RequestNames : GetFactory(game_mode)
  \/ \E mode \in RequestNames, fc \in FactoryClasses : RegisterFactory(mode, fc)
  \/ \E fc \in FactoryClasses, difficulty \in RequestNames :
       CreateAiStrategy(fc, difficulty)

\* the factory manager and the factories, asked under known and unknown names
SpecFactory == InitTurn /\ [][NextFactory]_vars

\* C28: every game-mode factory (standard, easy, hard) asked for a strategy
\* of an unknown difficulty returns the balanced (medium) strategy, and the
\* factory manager asked for an unknown game mode returns the standard
\* factory.
C28_Fallbacks ==
  [][/\ \A fc \in FactoryClasses :
          (/\ ApiStep(fc)
           /\ lower(ghost'.request) \notin Difficulties) =>
            ghost'.returned = "MediumAIStrategy"
     /\ (/\ ApiStep("get_factory")
         /\ \/ lower(ghost'.request) \notin ModeKeys
            \/ ensure_factories(factories)[lower(ghost'.request)] = "none") =>
           ghost'.returned = "StandardGameFactory"
    ]_vars

(* ------------------- saving and loading (game_manager.py) -------------- *)
\* a dict key that is a player id, and what json.dumps makes of it
int_key(p) == <<"int", p>>
json_key(p) == <<"str", p>>

\* GameManager.special_effects as the dict it is, keyed by player id
effects_dict(se) ==
  [k \in {int_key(p) : p \in {q \in Players : se[q] # None}} |-> se[k[2]]]

\* json.dumps and json.loads of a dict: every key comes back as a string
json_dict(d) ==
  [k \in {json_key(key[2]) : key \in DOMAIN d} |->
     d[CHOOSE key \in DOMAIN d : key[2] = k[2]]]

\* what "player.id in self.special_effects" finds in a dict
effects_view(d) ==
  [p \in Players |-> IF int_key(p) \in DOMAIN d THEN d[int_key(p)] ELSE None]

\* GameManager.save_game: game_data as json.loads gives it back
save_snapshot(w, order, ai, idx, gs, tc) ==
  [config |-> w.config,
   players |-> [order |-> order,
                money |-> w.money, position |-> w.position,
                is_in_jail |-> w.is_in_jail, jail_turns |-> w.jail_turns,
                is_bankrupt |-> w.is_bankrupt, properties |-> w.properties,
                items |-> w.items],
   map_cells |-> [owner_id |-> w.owner_id, level |-> w.level],
   current_player_index |-> idx,
   game_state |-> gs,
   turn_count |-> tc,
   ai_players |-> ai,
   special_effects |-> json_dict(effects_dict(w.special_effects))]

\* a load_game that leaves the cells of the board as they are
load_world_keep_cells(sn, w) ==
  [w EXCEPT !.money = sn.players.money,
            !.position = sn.players.position,
            !.is_in_jail = sn.players.is_in_jail,
            !.jail_turns = sn.players.jail_turns,
            !.is_bankrupt = sn.players.is_bankrupt,
            !.properties = sn.players.properties,
            !.items = sn.players.items,
            !.special_effects = effects_view(sn.special_effects),
            !.config = sn.config]

\* GameManager.load_game: the players, the cells, the configuration and the
\* special effects it restores
load_world(sn, w) ==
  [money |-> sn.players.money,
   position |-> sn.players.position,
   is_in_jail |-> sn.players.is_in_jail,
   jail_turns |-> sn.players.jail_turns,
   is_bankrupt |-> sn.players.is_bankrupt,
   properties |-> sn.players.properties,
   items |-> sn.players.items,
   owner_id |-> sn.map_cells.owner_id,
   level |-> sn.map_cells.level,
   special_effects |-> effects_view(sn.special_effects),
   config |-> sn.config]

\* GameManager.save_game: a row more in game_saves; what the engine held is
\* noted
SaveGame ==
  /\ ops < MaxEngineOps
  /\ ops' = ops + 1
  /\ game_saves' = Append(game_saves,
                          save_snapshot(World, players, ai_players,
                                        current_player_index, game_state, turn_count))
  /\ last_result' = Result("save_game", TRUE, 0, FALSE, 0)
  /\ ghost' = [ghost EXCEPT !.at_save =
                 Append(@, [world |-> World, players |-> players,
                            ai_players |-> ai_players,
                            current_player_index |-> current_player_index,
                            game_state |-> game_state,
                            turn_count |-> turn_count])]
  /\ UNCHANGED <<worldvars, histvars, players, ai_players, factories, threads,
                 current_player_index, game_state, turn_count, last_dice_result,
                 roll_button, buy_button, upgrade_button, end_turn_button>>

\* GameManager.load_game of the newest row of game_saves
LoadSavedGame ==
  /\ ops < MaxEngineOps
  /\ ops' = ops + 1
  /\ IF game_saves = <<>>
     THEN /\ last_result' = Result("load_game", FALSE, 0, FALSE, 0)
          /\ UNCHANGED <<worldvars, players, ai_players, current_player_index,
                         game_state, turn_count, ghost>>
     ELSE LET sn == game_saves[Len(game_saves)]
          IN /\ SetWorld(load_world(sn, World))
             /\ players' = sn.players.order
             /\ ai_players' = sn.ai_players
             /\ current_player_index' = sn.current_player_index
             /\ game_state' = sn.game_state
             /\ turn_count' = sn.turn_count
             /\ last_result' = Result("load_game", TRUE, 0, FALSE, 0)
             /\ ghost' = [ghost EXCEPT !.loaded =
                            IF load_world(sn, World) = World THEN "same"
                            ELSE "changed"]
  /\ UNCHANGED <<histvars, factories, game_saves, threads, last_dice_result,
                 roll_button, buy_button, upgrade_button, end_turn_button>>

\* the event a run draws on the chance cell: the found rent waiver
SaveEvents == {chance_events[7], [key |-> "none", value |-> 0]}

\* the cell a run buys and upgrades
SaveCells == {3}

NextSave ==
  \/ SaveGame
  \/ LoadSavedGame
  \/ \E order \in Orders(registered) : StartGameApi(order)
  \/ NextTurnApi
  \/ \E p \in Players, steps \in DealSteps : MovePlayerApi(p, steps)
  \/ \E p \in Players, ev \in SaveEvents : ProcessLandingApi(p, ev)
  \/ \E p \in Players, mp \in SaveCells : PurchaseApi(p, mp)
  \/ \E p \in Players, mp \in SaveCells : UpgradeApi(p, mp)

\* the engine of a game that is played, saved and loaded
SpecSave == InitGame /\ [][NextSave]_vars

\* what the engine held at the newest save
AtSave == ghost.at_save[Len(ghost.at_save)]

\* C29: loading the snapshot a save produced restores every player (cash,
\* position, jail flag and counter, owned cells, items, bankrupt flag), every
\* cell's owner and level, the current player index, the game state, the
\* round counter and the pending special effects of every player to what
\* they were at the save, so that every purchase costs after the load what
\* it cost before the save, and a purchase made next is charged that price.
C29_SaveLoad ==
  [][/\ (ApiStep("load_game") /\ last_result'.ok) =>
          /\ World' = AtSave.world
          /\ players' = AtSave.players
          /\ current_player_index' = AtSave.current_player_index
          /\ game_state' = AtSave.game_state
          /\ turn_count' = AtSave.turn_count
          /\ \A p \in Players, mp \in MapPositions :
                final_price(World', p, mp) = final_price(AtSave.world, p, mp)
     /\ (/\ ApiStep("purchase_property")
         /\ last_result'.ok
         /\ last_result.op = "load_game"
         /\ last_result.ok) =>
          money[last_result'.id] - money'[last_result'.id]
            = final_price(AtSave.world, last_result'.id, last_result'.amount)
    ]_vars

\* a game was saved, went on, was loaded, which took it back, and a cell
\* was bought next
C29_Witness ==
  /\ ghost.loaded = "changed"
  /\ last_result.op = "purchase_property"
  /\ last_result.ok
  /\ ops = MaxEngineOps
  /\ money[last_result.id] < AtSave.world.money[last_result.id]

(* ------------- the auto-save thread beside the window thread ----------- *)
\* engine calls the window thread makes in a run
MaxThreadCalls == 2

\* snapshots the auto-save thread takes in a run
MaxAutoSaves == 1

\* the cells the window thread buys and upgrades: the property 1 nobody
\* owns and the property 3 of player 2
ThreadCells == {1, 3}

\* a game in play restored from a snapshot: player 2 owns the property 3,
\* player 1 stands on it without a rent waiver, the players of poor are
\* short of cash
InitAutoSave ==
  \E poor \in SUBSET Players :
    InitLoaded(LandWorld(2, <<>>, poor, {}, config_jail_turns),
               [p \in Players |-> "human"])

\* the window thread reaches the statement pc of a handler called for player
\* p and cell mp with the local amount, or leaves the handler (pc "idle");
\* between two handlers the state of the players and cells is noted
ThreadAt(pc, p, mp, amount, w) ==
  /\ threads' = [threads EXCEPT !.pc = pc, !.who = p, !.cell = mp,
                                !.amount = amount]
  /\ ghost' = IF pc = "idle"
              THEN [ghost EXCEPT !.stable = @ \cup {Core(w)}]
              ELSE ghost

\* GameManager._handle_property_landing up to and including
\* player.spend_money(rent); the branches that pay no rent return at once
HandlePropertyLandingDebit(p) ==
  /\ threads.pc = "idle"
  /\ ops < MaxThreadCalls
  /\ ops' = ops + 1
  /\ p \in registered
  /\ LET mp == get_cell_at_position(position[p])
     IN /\ mp # NoneVal
        /\ CellAt(mp).cell_type \in PropertyLike
        /\ IF handle_property_landing_type(World, p, mp) = "rent_paid"
           THEN LET rent == get_rent(World, mp)
                    w == spend_money(World, p, rent)
                IN SetWorld(w) /\ ThreadAt("rent_debited", p, mp, rent, w)
           ELSE LET w == handle_property_landing(World, p, mp)
                IN SetWorld(w) /\ ThreadAt("idle", p, mp, 0, w)
  /\ last_result' = Result("process_landing", TRUE, p, FALSE, 0)
  /\ UNCHANGED <<histvars, players, ai_players, factories, game_saves,
                 current_player_index, game_state, turn_count, last_dice_result,
                 roll_button, buy_button, upgrade_button, end_turn_button>>

\* GameManager._handle_property_landing from owner = get_player_by_id(...)
\* on: owner.add_money(rent)
HandlePropertyLandingCredit ==
  /\ threads.pc = "rent_debited"
  /\ LET w == add_money(World, owner_id[threads.cell], threads.amount)
     IN SetWorld(w) /\ ThreadAt("idle", threads.who, threads.cell, 0, w)
  /\ UNCHANGED <<histvars, players, ai_players, factories, game_saves,
                 current_player_index, game_state, turn_count, last_dice_result,
                 roll_button, buy_button, upgrade_button, end_turn_button,
                 last_result, ops>>

\* GameManager.upgrade_property up to and including cell.upgrade()
UpgradePropertyRaise(p, mp) ==
  /\ threads.pc = "idle"
  /\ ops < MaxThreadCalls
  /\ ops' = ops + 1
  /\ p \in registered
  /\ IF owner_id[mp] # p \/ ~can_upgrade(World, mp)
     THEN /\ SetWorld(World)
          /\ ThreadAt("idle", p, mp, 0, World)
     ELSE /\ SetWorld(upgrade(World, mp))
          /\ ThreadAt("level_raised", p, mp, upgrade_result(World, mp),
                      upgrade(World, mp))
  /\ last_result' = Result("upgrade_property", upgrade_property_ok(World, p, mp),
                           p, FALSE, mp)
  /\ UNCHANGED <<histvars, players, ai_players, factories, game_saves,
                 current_player_index, game_state, turn_count, last_dice_result,
                 roll_button, buy_button, upgrade_button, end_turn_button>>

\* GameManager.upgrade_property from player.spend_money(upgrade_cost) on
UpgradePropertyDebit ==
  /\ threads.pc = "level_raised"
  /\ LET w == IF threads.amount > 0
              THEN spend_money(World, threads.who, threads.amount)
              ELSE World
     IN SetWorld(w) /\ ThreadAt("idle", threads.who, threads.cell, 0, w)
  /\ UNCHANGED <<histvars, players, ai_players, factories, game_saves,
                 current_player_index, game_state, turn_count, last_dice_result,
                 roll_button, buy_button, upgrade_button, end_turn_button,
                 last_result, ops>>

\* GameManager.purchase_property up to and including the spend_money of
\* Player.buy_property
PurchasePropertyDebit(p, mp) ==
  /\ threads.pc = "idle"
  /\ ops < MaxThreadCalls
  /\ ops' = ops + 1
  /\ p \in registered
  /\ IF owner_id[mp] # None
     THEN /\ SetWorld(World)
          /\ ThreadAt("idle", p, mp, 0, World)
     ELSE LET fp == final_price(World, p, mp)
              w1 == [World EXCEPT !.special_effects[p] = None]
          IN IF spend_money_ok(w1, p, fp)
             THEN /\ SetWorld(spend_money(w1, p, fp))
                  /\ ThreadAt("cash_debited", p, mp, fp, spend_money(w1, p, fp))
             ELSE /\ SetWorld(w1)
                  /\ ThreadAt("idle", p, mp, 0, w1)
  /\ last_result' = Result("purchase_property", purchase_property_ok(World, p, mp),
                           p, FALSE, mp)
  /\ UNCHANGED <<histvars, players, ai_players, factories, game_saves,
                 current_player_index, game_state, turn_count, last_dice_result,
                 roll_button, buy_button, upgrade_button, end_turn_button>>

\* Player.buy_property from self.properties.append(property_id) on, and
\* GameManager.purchase_property: cell.owner_id = player.id
PurchasePropertyOwn ==
  /\ threads.pc = "cash_debited"
  /\ LET w == [World EXCEPT
                 !.properties[threads.who] = Append(@, CellAt(threads.cell).position),
                 !.owner_id[threads.cell] = threads.who]
     IN SetWorld(w) /\ ThreadAt("idle", threads.who, threads.cell, 0, w)
  /\ UNCHANGED <<histvars, players, ai_players, factories, game_saves,
                 current_player_index, game_state, turn_count, last_dice_result,
                 roll_button, buy_button, upgrade_button, end_turn_button,
                 last_result, ops>>

\* what _serialize_player keeps of a player: asdict(player)
serialize_player(w, p) ==
  [money |-> w.money[p], position |-> w.position[p],
   properties |-> w.properties[p]]

\* what _serialize_map_cell keeps of the cells
serialize_map_cells(w) == [owner_id |-> w.owner_id, level |-> w.level]

\* the turn number and the cells create_game_state reads from the engine
snapshot_turn_number == turn_count
snapshot_map_data == serialize_map_cells(World)

\* a snapshot before any player was read
empty_snapshot ==
  [taken |-> TRUE, game_state |-> game_state,
   current_player_index |-> current_player_index,
   turn_number |-> snapshot_turn_number,
   players |-> [p \in Players |-> serialize_player(InitWorld(0), p)],
   map_data |-> serialize_map_cells(InitWorld(0))]

\* the players and cells a snapshot holds, as the engine holds them
SnapshotCore(sn) ==
  [money |-> [p \in Players |-> sn.players[p].money],
   position |-> [p \in Players |-> sn.players[p].position],
   properties |-> [p \in Players |-> sn.players[p].properties],
   owner_id |-> sn.map_data.owner_id, level |-> sn.map_data.level]

\* the auto-save thread wakes (MonopolyGameApp._auto_save_worker), the
\* interval has passed (auto_save_if_needed) and create_game_state begins:
\* the configuration, the game state, the player index and the turn number
AutoSaveIfNeeded ==
  /\ threads.worker = "asleep"
  /\ threads.saves < MaxAutoSaves
  /\ game_state \in {"playing", "paused"}
  /\ threads' = [threads EXCEPT !.worker = "players", !.next = 1,
                                !.seen = empty_snapshot]
  /\ UNCHANGED <<worldvars, histvars, players, ai_players, factories, game_saves,
                 current_player_index, game_state, turn_count, last_dice_result,
                 roll_button, buy_button, upgrade_button, end_turn_button,
                 last_result, ghost, ops>>

\* create_game_state: the next player of the list comprehension over
\* game_manager.players
SerializePlayer ==
  /\ threads.worker = "players"
  /\ threads.next <= Len(players)
  /\ threads' = [threads EXCEPT
                   !.seen.players[players[threads.next]] =
                      serialize_player(World, players[threads.next]),
                   !.next = @ + 1]
  /\ UNCHANGED <<worldvars, histvars, players, ai_players, factories, game_saves,
                 current_player_index, game_state, turn_count, last_dice_result,
                 roll_button, buy_button, upgrade_button, end_turn_button,
                 last_result, ghost, ops>>

\* create_game_state: the cells, which completes the snapshot
\* save_game_state hands to the database
SerializeMapCells ==
  /\ threads.worker = "players"
  /\ threads.next > Len(players)
  /\ threads' = [threads EXCEPT
                   !.worker = "asleep",
                   !.snapshot = [threads.seen EXCEPT !.map_data = snapshot_map_data],
                   !.seen = NoSnapshot,
                   !.saves = @ + 1]
  /\ UNCHANGED <<worldvars, histvars, players, ai_players, factories, game_saves,
                 current_player_index, game_state, turn_count, last_dice_result,
                 roll_button, buy_button, upgrade_button, end_turn_button,
                 last_result, ghost, ops>>

NextAutoSave ==
  \/ \E p \in Players : HandlePropertyLandingDebit(p)
  \/ HandlePropertyLandingCredit
  \/ \E p \in Players, mp \in ThreadCells : UpgradePropertyRaise(p, mp)
  \/ UpgradePropertyDebit
  \/ \E p \in Players, mp \in ThreadCells : PurchasePropertyDebit(p, mp)
  \/ PurchasePropertyOwn
  \/ AutoSaveIfNeeded
  \/ SerializePlayer
  \/ SerializeMapCells

SpecAutoSave == InitAutoSave /\ [][NextAutoSave]_vars

TaxPositions == {3, 34}

\* cash below both taxes, between them, the income tax exactly, and plenty
TaxMoney == {poor_money, 150, 200, low_initial_money}

\* a snapshot of a game in which player 1 stands on a tax cell and the
\* players hold the cash m
TaxWorld(pos, m) ==
  [InitWorld(low_initial_money) EXCEPT !.position[1] = pos, !.money = m]

InitTax ==
  \E pos \in TaxPositions, m \in [Players -> TaxMoney] :
    InitLoaded(TaxWorld(pos, m), [p \in Players |-> "human"])

\* GameManager._handle_tax_landing: result["tax_amount"] of a landing, 0 on
\* a cell that is no tax cell
landing_tax_amount(w, p) ==
  LET mp == get_cell_at_position(w.position[p])
  IN IF mp # NoneVal /\ CellAt(mp).cell_type = "tax"
     THEN tax_amount_of(w, p, mp)
     ELSE 0

\* GameManager.process_landing of a player where the player stands; the
\* result carries the reported tax
TaxLanding(p) ==
  /\ ops < MaxLandings
  /\ ops' = ops + 1
  /\ p \in registered
  /\ SetWorld(process_landing(World, p, [key |-> "none", value |-> 0], players))
  /\ last_result' = Result("process_landing", TRUE, p, FALSE,
                           landing_tax_amount(World, p))
  /\ ghost' = [ghost EXCEPT !.landing = process_landing_type(World, p)]
  /\ UNCHANGED <<histvars, turnvars>>

\* PayTaxCommand(game_manager, player, cell).execute() of the BLL layer for
\* the cell the player stands on
PayTaxCommandExecute(p) ==
  /\ ops < MaxLandings
  /\ ops' = ops + 1
  /\ p \in registered
  /\ get_cell_at_position(position[p]) # NoneVal
  /\ CellAt(get_cell_at_position(position[p])).cell_type = "tax"
  /\ LET c0 == NewCommand("BLL", "PayTax", p, get_cell_at_position(position[p]),
                          None, World)
         r == BllPayTaxExecute(c0, World)
     IN /\ SetWorld(r.w)
        /\ commands' = Append(commands, r.c)
        /\ last_result' = Result("pay_tax", r.ok, p, FALSE, r.c.tax_amount)
  /\ ghost' = [ghost EXCEPT !.landing = "none"]
  /\ UNCHANGED <<layer, command_history, current_index, turnvars>>

NextTax ==
  \/ \E p \in Players : TaxLanding(p)
  \/ \E p \in Players : PayTaxCommandExecute(p)

\* the engine of a restored game whose players are charged tax
SpecTax == InitTax /\ [][NextTax]_vars

\* the fixed tax of the named tax cell at map position mp
FixedTax(mp) == IF CellAt(mp).tax_name = "income" THEN 200 ELSE 100

\* C31: a landing on a named tax cell, and the tax command for it, reports
\* the fixed amount (200 income tax, 100 luxury tax); when it reports the tax
\* as paid the player's cash has gone down by exactly that amount, otherwise
\* it reports failure and the cash is unchanged; nobody else's cash moves.
C31_TaxCharge ==
  [][\A p \in Players :
       (/\ (ApiStep("process_landing") \/ ApiStep("pay_tax"))
        /\ last_result'.id = p
        /\ StandsOn(p) # NoneVal
        /\ CellAt(StandsOn(p)).cell_type = "tax") =>
         /\ last_result'.amount = FixedTax(StandsOn(p))
         /\ IF last_result'.ok
            THEN money'[p] = money[p] - last_result'.amount
            ELSE money'[p] = money[p]
         /\ \A q \in Players \ {p} : money'[q] = money[q]
    ]_vars

(* ---------------------------- round counter ---------------------------- *)
\* a next_turn step that went round the end of the player list: the new
\* current index is not after the old one
Wrapped == current_player_index' <= current_player_index

FramePositions == {0, 2, 4, 9, 19, board_size - 1}

\* a snapshot of a game in which player 2 has bought the property 3, the
\* players 1 and 2 stand on pos1 and pos2 and player 1 holds a rent waiver
FrameWorld(pos1, pos2) ==
  [purchase_property(InitWorld(low_initial_money), 2, 3) EXCEPT
     !.position[1] = pos1, !.position[2] = pos2, !.items[1] = <<RentWaiver>>]

InitFrame ==
  \E pos1 \in FramePositions, pos2 \in FramePositions :
    InitLoaded(FrameWorld(pos1, pos2), [p \in Players |-> "human"])

\* the cells the players buy and upgrade
FrameCells == {1, 3}

NextFrame ==
  \/ \E p \in Players : Landing(p, [key |-> "none", value |-> 0])
  \/ \E p \in Players, mp \in FrameCells : ops < MaxLandings /\ PurchaseApi(p, mp)
  \/ \E p \in Players, mp \in FrameCells : ops < MaxLandings /\ UpgradeApi(p, mp)

\* the engine of a restored game: landings where the players stand, and the
\* purchases and upgrades that follow them
SpecFrame == InitFrame /\ [][NextFrame]_vars

\* player p stands on a cell whose landing only informs or offers: a start,
\* jail or free-parking cell, or a property-like cell that nobody or p owns
QuietCell(p) ==
  /\ StandsOn(p) # NoneVal
  /\ \/ CellAt(StandsOn(p)).cell_type \in {"start", "jail", "free_parking"}
     \/ /\ CellAt(StandsOn(p)).cell_type \in PropertyLike
        /\ owner_id[StandsOn(p)] \in {None, p}

\* C33: a landing on a start, jail or free-parking cell, on a property-like
\* cell nobody owns or on one the landing player owns changes no player's
\* cash, position, jail state, items or owned cells and no cell's owner or
\* level; an owner or a level only changes by a purchase_property or an
\* upgrade_property call.
C33_QuietLanding ==
  [][/\ \A p \in Players :
          (LandingStep(p) /\ QuietCell(p)) =>
            /\ money' = money
            /\ position' = position
            /\ is_in_jail' = is_in_jail
            /\ jail_turns' = jail_turns
            /\ items' = items
            /\ properties' = properties
            /\ owner_id' = owner_id
            /\ level' = level
     /\ (owner_id' # owner_id \/ level' # level) =>
          (ApiStep("purchase_property") \/ ApiStep("upgrade_property"))
    ]_vars

\* a landing on a cell nobody owned offered the purchase to a player who
\* could pay, and the cell still has no owner
C33_Witness ==
  /\ last_result.op = "process_landing"
  /\ ghost.landing = "purchase_option"
  /\ QuietCell(last_result.id)
  /\ owner_id[StandsOn(last_result.id)] = None
  /\ money[last_result.id] >= CellAt(StandsOn(last_result.id)).price

(* ------------------------- cash never negative ------------------------- *)
\* calls and commands of a run
MaxCashOps == 2

\* the player positions a snapshot leaves player 1 on: the chance cell 2,
\* the property 3 of player 2, the income-tax cell 4 and the misfortune cell 7
CashPositions == {1, 2, 3, 6}

\* cash below every charge, cash between the charges, and plenty
CashMoney == {poor_money, 250, low_initial_money}

\* a snapshot of a game in which player 2 has bought the property 3 and sits
\* in jail, player 1 stands on pos, and the two hold m1 and m2
CashWorld(pos, m1, m2) ==
  [go_to_jail(purchase_property(InitWorld(low_initial_money), 2, 3), 2) EXCEPT
     !.position[1] = pos, !.money[1] = m1, !.money[2] = m2]

InitCash ==
  \E lay \in {"business", "BLL"}, pos \in CashPositions,
     m1 \in CashMoney, m2 \in CashMoney :
    InitLoadedIn(lay, CashWorld(pos, m1, m2), [p \in Players |-> "human"])

\* the run has calls left
CashBudget == ops + Len(commands) < MaxCashOps

\* the players that act in a run
CashPlayers == {1, 2}

\* every operation of the engine that debits or credits: landings with every
\* event, purchases, upgrades, the jail fine, commands and their undo and redo
NextCash ==
  \/ \E p \in CashPlayers, ev \in AllEvents : CashBudget /\ Landing(p, ev)
  \/ \E p \in CashPlayers, mp \in FrameCells : CashBudget /\ PurchaseApi(p, mp)
  \/ \E p \in CashPlayers, mp \in FrameCells : CashBudget /\ UpgradeApi(p, mp)
  \/ \E p \in CashPlayers, pay_fine \in BOOLEAN : CashBudget /\ TryLeaveJail(p, pay_fine)
  \/ \E inp \in CommandInputs(layer) : CashBudget /\ ExecuteCommand(inp)
  \/ CashBudget /\ HistoryUndo
  \/ CashBudget /\ HistoryRedo
  \/ \E id \in 1..Len(commands) : CashBudget /\ CmdUndo(id)

SpecCash == InitCash /\ [][NextCash]_vars

\* C34: in every reachable state every player's cash is at least zero.
C34_CashNonNegative == \A p \in Players : money[p] >= 0

\* a landing drew a fine above the player's cash: the debit was refused and
\* the cash is what it was, not below zero
C34_Witness ==
  /\ last_result.op = "process_landing"
  /\ ghost.landing = "misfortune_event"
  /\ ghost.event.key = "money"
  /\ ghost.event.value < 0
  /\ money[last_result.id] < 0 - ghost.event.value
  /\ money[last_result.id] = poor_money

(* --------------------------- a game never ends ------------------------- *)
\* a step of the window that ends the current player's turn: the end-turn
\* button, or the roll of a player who stays in jail
TurnEnds ==
  \/ end_turn_button = "normal" /\ last_result'.op = "end_turn"
  \/ ops' = ops + 1 /\ last_result'.op = "roll" /\ ~last_result'.ok

\* C35: in a game started with two or more players, none of them bankrupt, no
\* player is ever marked bankrupt and the game state never becomes finished:
\* every end of a turn leaves the game in play and hands the turn to the next
\* player of the list, with the roll button ready.
C35_NeverFinished ==
  /\ [](\A p \in Players : ~is_bankrupt[p])
  /\ [](game_state # "finished")
  /\ [][TurnEnds =>
          /\ game_state' = "playing"
          /\ current_player_index' = (current_player_index + 1) % Len(players)
          /\ roll_button' = "normal"
       ]_vars

\* a player whose cash was below the rent due has ended the turn; the
\* game is in its third round or later and still in play
C35_Witness ==
  /\ last_result.op = "end_turn"
  /\ game_state = "playing"
  /\ turn_count >= 3
  /\ ghost.landing = "rent_paid"
  /\ ghost.pre_money[last_result.id] < ghost.rent
  /\ \A p \in Players : ~is_bankrupt[p]

(* ------------------------ owned lists and owners ----------------------- *)
\* C36: in every reachable state a cell's position is in a player's owned
\* list exactly when that player is the cell's owner, and no position is
\* twice in an owned list (so no cell is in two players' lists).
C36_OwnedSets ==
  \A p \in Players :
    /\ \A mp \in MapPositions :
         InSeq(mp, properties[p]) <=> owner_id[mp] = p
    /\ \A mp \in MapPositions : CountOf(mp, properties[p]) <= 1

(* ------------------------ jail flag and counter ------------------------ *)
\* calls and commands of a run
MaxJailSteps == 4

\* the go-to-jail cell 30 and the misfortune cell 7, as player positions
JailEntryPositions == {29, 6}

\* a snapshot of a game in which player 1 stands on pos, or sits in jail
\* with stay turns left
JailEntryWorld(pos, stay, its, m) ==
  [JailWorld(stay, its, m) EXCEPT
     !.position[1] = IF stay = 0 THEN pos ELSE jail_player_position]

InitJailEntry ==
  \E pos \in JailEntryPositions, stay \in 0..jail_turns_on_entry,
     its \in {<<>>, <<JailWaiver>>}, m \in {400, 2500},
     d \in {"human", "medium", "hard"} :
    InitLoadedIn("business", JailEntryWorld(pos, stay, its, m),
                 [p \in Players |-> IF p = 1 THEN d ELSE "human"])

\* the run has calls left
JailBudget == ops + Len(commands) < MaxJailSteps

\* every way into jail and out of it: the go-to-jail cell and the misfortune
\* card, the wait, the fine, the waiver, the send-to-jail command through the
\* history and on the command object itself
NextJailEntry ==
  \/ \E ev \in {misfortune_events[3], [key |-> "none", value |-> 0]} :
       JailBudget /\ Landing(1, ev)
  \/ \E pay_fine \in BOOLEAN : JailBudget /\ TryLeaveJail(1, pay_fine)
  \/ \E coin \in BOOLEAN : JailBudget /\ HandleAiTurn(1, coin)
  \/ JailBudget /\ ExecuteCommand(<<"GoToJail", 1, 0, None>>)
  \/ JailBudget /\ HistoryUndo
  \/ JailBudget /\ HistoryRedo
  \/ \E id \in 1..Len(commands) : JailBudget /\ CmdExecute(id)
  \/ \E id \in 1..Len(commands) : JailBudget /\ CmdUndo(id)

SpecJailEntry == InitJailEntry /\ [][NextJailEntry]_vars

\* C37: in every reachable state a player's jail flag is set exactly when the
\* jail-turn counter is at least 1, and the counter lies between 0 and the
\* value set on entry (3); across entry, wait, fine, waiver and the undo of a
\* send-to-jail command.
C37_JailCounter ==
  \A p \in Players :
    /\ is_in_jail[p] <=> jail_turns[p] >= 1
    /\ jail_turns[p] \in 0..jail_turns_on_entry

\* the undo of a send-to-jail command put a jailed player back to the stay
\* the player had before the command
C37_Witness ==
  /\ last_result.op \in {"undo", "cmd_undo"}
  /\ last_result.ok
  /\ commands[last_result.id].kind = "GoToJail"
  /\ is_in_jail[1]
  /\ jail_turns[1] \in 1..(jail_turns_on_entry - 1)

(* ----------------------------- turn order ------------------------------ *)
\* how many of the turns t[from..to] went to the player at index q
TurnsOf(t, q, from, to) == Cardinality({k \in from..to : t[k] = q})

\* t[i] and t[j] are two consecutive turns of the same player
ConsecutiveTurns(t, i, j) ==
  /\ i < j
  /\ t[i] = t[j]
  /\ \A k \in (i + 1)..(j - 1) : t[k] # t[i]

\* C38: while the game is playing and the set of players that are not
\* bankrupt stays as it is, the turn changes visit the players that are not
\* bankrupt in cyclic order: between two consecutive turns of the same player
\* every other player that is not bankrupt has exactly one turn, no bankrupt
\* player has any, and the current index stays within the player list.
C38_TurnOrder ==
  (game_state = "playing" /\ players # <<>>) =>
    LET t == ghost.turns
    IN /\ current_player_index \in 0..(Len(players) - 1)
       /\ \A k \in 1..Len(t) : t[k] \in 0..(Len(players) - 1) /\ ~BankruptAt(t[k])
       /\ \A i, j \in 1..Len(t) :
            ConsecutiveTurns(t, i, j) =>
              \A q \in 0..(Len(players) - 1) :
                (q # t[i] /\ ~BankruptAt(q)) => TurnsOf(t, q, i + 1, j - 1) = 1

\* a game of three players, one of them bankrupt: a player had a second
\* turn after the one other player that is not bankrupt had one
C38_Witness ==
  /\ game_state = "playing"
  /\ Len(players) = 3
  /\ Cardinality(active_players(World, players)) = 2
  /\ Len(ghost.turns) >= 3
  /\ ConsecutiveTurns(ghost.turns, 1, 3)

(* ---------------------------- undo then redo --------------------------- *)
\* the step is a redo on the history that follows a successful undo on the
\* history with nothing in between
RedoAfterUndo ==
  /\ last_result.op = "undo"
  /\ last_result.ok
  /\ ops' = ops + 1
  /\ last_result'.op = "redo"

\* C39: for a command of any type, an undo on the history followed at once
\* by a redo leaves all player and cell state, the pending special effects
\* and the cursor equal to their values just before the undo.
C39_UndoRedo ==
  [][RedoAfterUndo =>
       /\ World' = ghost.pre_undo.w
       /\ current_index' = ghost.pre_undo.idx]_vars

(* ------------------- what the strategies choose --------------------- *)
\* decisions and the calls that follow them in a run
MaxAiCalls == 2

\* EasyAIStrategy.decide_purchase
easy_decide_purchase(w, p, mp) ==
  LET cell == CellAt(mp)
      safety_money == 3000
      available_money == w.money[p] - safety_money
  IN /\ cell.cell_type \in {"property", "airport", "utility"}
     /\ cell.price <= 2000
     /\ available_money >= cell.price

\* a MediumAIStrategy.decide_purchase that looks at the return only
medium_decide_purchase_roi(w, p, mp) ==
  LET cell == CellAt(mp)
  IN /\ cell.cell_type \in {"property", "airport", "utility"}
     /\ cell.price # 0
     /\ \/ 100 * cell.rent_base > 8 * cell.price
        \/ 100 * cell.rent_base > 5 * cell.price /\ cell.price < 3000
        \/ Len(w.properties[p]) < 3

\* MediumAIStrategy.decide_purchase; roi is rent_base / price, compared here
\* without the division
medium_decide_purchase(w, p, mp) ==
  LET cell == CellAt(mp)
      safety_money == 2000
      available_money == w.money[p] - safety_money
  IN /\ cell.cell_type \in {"property", "airport", "utility"}
     /\ cell.price # 0
     /\ available_money >= cell.price
     /\ \/ 100 * cell.rent_base > 8 * cell.price
        \/ 100 * cell.rent_base > 5 * cell.price /\ cell.price < 3000
        \/ Len(w.properties[p]) < 3

\* HardAIStrategy.decide_purchase
hard_decide_purchase(w, p, mp) ==
  LET cell == CellAt(mp)
      safety_money == 1000
      available_money == w.money[p] - safety_money
  IN /\ cell.cell_type \in {"property", "airport", "utility", "landmark"}
     /\ available_money >= cell.price
     /\ \/ cell.cell_type = "landmark"
        \/ cell.cell_type = "airport"
        \/ cell.price > 2000
        \/ Len(w.properties[p]) < 5

\* AIStrategyFactory.create_strategy and decide_purchase of the strategy it
\* makes: a difficulty it does not know is played by the medium strategy
decide_purchase(difficulty, w, p, mp) ==
  IF difficulty = "easy" THEN easy_decide_purchase(w, p, mp)
  ELSE IF difficulty = "hard" THEN hard_decide_purchase(w, p, mp)
  ELSE medium_decide_purchase(w, p, mp)

\* the cells a strategy is asked about: a cheap property, a tax cell, an
\* airport, a utility, properties of middling and high price and return, and
\* the landmark
AiCells == {1, 4, 5, 12, 14, 21, 31, 36}

\* the cells a snapshot leaves with player 1
AiOwned == <<3, 6, 8, 9, 11>>

\* the cash a snapshot leaves with player 1: round the jail fine, the
\* thresholds of the strategies and a reserve plus a price
AiMoney == JailMoney \cup {3600, 4600, initial_money}

\* a snapshot of a game in which player 1 owns the first n cells of AiOwned
\* and has stay turns of jail left
AiWorld(stay, its, m, n) ==
  LET mine == SubSeq(AiOwned, 1, n)
      w == JailWorld(stay, its, m)
  IN [w EXCEPT !.properties[1] = mine,
               !.owner_id = [mp \in MapPositions |->
                               IF InSeq(mp, mine) THEN 1 ELSE w.owner_id[mp]]]

InitAi ==
  \E stay \in 0..jail_turns_on_entry, its \in {<<>>, <<JailWaiver>>},
     m \in AiMoney, n \in {0, 3, Len(AiOwned)}, d \in Difficulties :
    InitLoaded(AiWorld(stay, its, m, n),
               [p \in Players |-> IF p = 1 THEN d ELSE "human"])

\* AIPlayer.make_purchase_decision for the cell at map position mp; the
\* answer is noted
MakePurchaseDecision(p, mp) ==
  /\ ops < MaxAiCalls
  /\ ops' = ops + 1
  /\ p \in registered
  /\ ai_players[p] # "human"
  /\ last_result' = Result("make_purchase_decision",
                           decide_purchase(ai_players[p], World, p, mp),
                           p, FALSE, mp)
  /\ ghost' = [ghost EXCEPT !.decision =
                 IF decide_purchase(ai_players[p], World, p, mp)
                 THEN "buy" ELSE "decline"]
  /\ UNCHANGED <<worldvars, histvars, turnvars>>

\* the strategy has just said yes to the cell at mp, which nobody owns
SaidYes(p, mp) ==
  /\ last_result.op = "make_purchase_decision"
  /\ last_result.ok
  /\ last_result.id = p
  /\ last_result.amount = mp
  /\ owner_id[mp] = None

\* the strategies asked about cells and about jail, and the purchase the
\* window makes when the answer is yes
NextAi ==
  \/ \E mp \in AiCells : MakePurchaseDecision(1, mp)
  \/ \E mp \in AiCells : ops < MaxAiCalls /\ SaidYes(1, mp) /\ PurchaseApi(1, mp)
  \/ \E coin \in BOOLEAN : ops < MaxAiCalls /\ HandleAiTurn(1, coin)

SpecAi == InitAi /\ [][NextAi]_vars

\* the cash a strategy keeps back when it buys
Reserve(difficulty) ==
  IF difficulty = "easy" THEN 3000
  ELSE IF difficulty = "medium" THEN 2000
  ELSE 1000

\* C40: when a strategy says yes to a purchase the player's cash less the
\* price of the cell is at least the reserve of the strategy (3000 cautious,
\* 2000 balanced, 1000 aggressive); when it chooses to pay in jail the cash
\* covers the fine of 500; it chooses the waiver only when the player holds
\* one; and the purchase that follows a yes and the release that follows a
\* pay succeed.
C40_StrategyAffordable ==
  [][\A p \in Players :
       /\ (ApiStep("make_purchase_decision") /\ last_result'.id = p /\ last_result'.ok) =>
            money[p] - CellAt(last_result'.amount).price >= Reserve(ai_players[p])
       /\ (AiJailStep(p) /\ ghost'.decision = "pay") =>
            (money[p] >= jail_fine /\ ~is_in_jail'[p])
       /\ (AiJailStep(p) /\ ghost'.decision = "use_item") => InSeq(JailWaiver, items[p])
       /\ (ApiStep("purchase_property") /\ SaidYes(p, last_result'.amount)) =>
            last_result'.ok
    ]_vars

\* the medium strategy said yes to a cell that left exactly its reserve, and
\* the purchase that followed went through
C40_Witness ==
  /\ last_result.op = "purchase_property"
  /\ last_result.ok
  /\ ai_players[last_result.id] = "medium"
  /\ owner_id[last_result.amount] = last_result.id
  /\ money[last_result.id] = Reserve("medium")
====
